---- MODULE Spec2Model ----
(***************************************************************************)
(* Model of the helper of serverless-create-global-dynamodb-table:         *)
(*   getRegionsToCreateGlobalTablesIn  (the region diff, "resolve")        *)
(*   checkStackCreateUpdateStatus      (the stack status poll, "poll")     *)
(*   createNewTableAndSetScalingPolicy, createUpdateCfnStack,              *)
(*   createGlobalTable (V1, V2) and createGlobalDynamodbTable              *)
(* Each asynchronous function is cut at its awaits: one action issues the  *)
(* provider call, one action per way the promise can settle runs the code  *)
(* up to the next await, return or throw.                                  *)
(***************************************************************************)
EXTENDS Integers, Sequences, FiniteSets, TLC

VARIABLES
    rPc,         \* getRegionsToCreateGlobalTablesIn: "idle", "lookup", "returned", "thrown"
    rArgs,       \* its arguments [region, newRegions, version]
    rCalls,      \* provider calls it has issued, in order
    rResp,       \* <<>> or <<the settled lookup response>>
    rReturned,   \* <<>> or <<the object it returned>>
    rThrown,     \* <<>> or <<the error it rejected with>>
    pPc,         \* checkStackCreateUpdateStatus: "idle", "query", "sleep", "returned", "thrown"
    script,      \* what describeStacks answers, query by query (the last entry repeats)
    queries,     \* describeStacks calls issued
    sleeps,      \* sleep(5000) calls issued
    status,      \* the local `status` ("undefined" until assigned)
    dotPrinted,  \* the local `dotPrinted`
    pReturned,   \* <<>> or <<the boolean it returned>>
    pThrown,     \* <<>> or <<the error it rejected with>>
    tPc,         \* createNewTableAndSetScalingPolicy: "idle", the awaited call, "returned", "thrown"
    tArgs,       \* its arguments [scalingPolicies, hasThroughput]
    tCalls,      \* provider calls it has issued, in order
    tResps,      \* how the settled ones settled: "ok" or the error code
    tThrown,     \* <<>> or <<the error it rejected with>>
    uPc,         \* createUpdateCfnStack: "idle", "createStack", "updateStack", "check", "returned", "thrown"
    uCalls,      \* createStack / updateStack / checkStackCreateUpdateStatus calls, in order
    uResps,      \* how the settled ones settled: "ok", "true", "false" or the error code
    uThrown,     \* <<>> or <<the error it rejected with>>
    gPc,         \* createGlobalTable: "idle", the awaited call, "returned", "thrown"
    gCreateStack,\* its argument createStack
    gParams,     \* <<>> or <<createTableParams>>
    gTableDef,   \* <<>> or <<the describeTable response for the source table>>
    gTasks,      \* the createNewTableAndSetScalingPolicy promises given to Promise.all:
                 \* [region, params, state], state "pending", "resolved" or "rejected"
    gIdx,        \* createGlobalTableV2: position in regionsToUpdate
    gCalls,      \* provider calls it has issued after the lookup, in order
    gInFlight,   \* those of them that have not settled yet, in order
    gThrown,     \* <<>> or <<the error it rejected with>>
    oPc,         \* createGlobalDynamodbTable: "idle", "list", "cfn", "table", "done"
    config,      \* service.custom.globalTables
    stackTables, \* the DynamoDB tables of the deployed stack (physical ids)
    tableNames,  \* the local `tableNames` (<<>> until assigned)
    oIdx,        \* position of the running for loop
    oCalls,      \* helper calls it has made, in order
    oCaught,     \* <<>> or <<the error its catch block logged>>
    lPc,         \* getTableNamesFromStack: "idle", "list", "returned", "thrown"
    stackResources, \* the resources of the stack, in listing order
    pageSize,    \* how many of them listStackResources reports per page
    lRequests,   \* the NextToken of each listStackResources call (0: undefined)
    nextToken,   \* the local `nextToken` (0: undefined)
    tablesInStack, \* the local `tablesInStack`
    lReturned,   \* <<>> or <<the list it returned>>
    lThrown,     \* <<>> or <<the error it rejected with>>
    dPc,         \* deleteGlobalAndBackupTables: "idle", "deleting", "done"
    dOptions,    \* service.custom.globalTables of the removed service (a list)
    dCalls,      \* the deleteTable calls issued, in order: [table, region]
    dTasks,      \* how each of them stands: [state, code], state "pending", "deleted",
                 \* "skipped" or "failed", code the error code deleteTable rejected with
    dCaught,     \* <<>> or <<the error its catch block logged>>
    remote       \* the provider's replication topology of the table: [exists, regions]

rVars == <<rPc, rArgs, rCalls, rResp, rReturned, rThrown>>
pVars == <<pPc, script, queries, sleeps, status, dotPrinted, pReturned, pThrown>>
tVars == <<tPc, tArgs, tCalls, tResps, tThrown>>
uVars == <<uPc, uCalls, uResps, uThrown>>
gVars == <<gPc, gCreateStack, gParams, gTableDef, gTasks, gIdx, gCalls, gInFlight, gThrown>>
oVars == <<oPc, config, stackTables, tableNames, oIdx, oCalls, oCaught>>
lVars == <<lPc, stackResources, pageSize, lRequests, nextToken, tablesInStack, lReturned, lThrown>>
dVars == <<dPc, dOptions, dCalls, dTasks, dCaught>>
vars == <<rPc, rArgs, rCalls, rResp, rReturned, rThrown,
          pPc, script, queries, sleeps, status, dotPrinted, pReturned, pThrown,
          tPc, tArgs, tCalls, tResps, tThrown,
          uPc, uCalls, uResps, uThrown,
          gPc, gCreateStack, gParams, gTableDef, gTasks, gIdx, gCalls, gInFlight, gThrown,
          oPc, config, stackTables, tableNames, oIdx, oCalls, oCaught,
          lPc, stackResources, pageSize, lRequests, nextToken, tablesInStack, lReturned, lThrown,
          dPc, dOptions, dCalls, dTasks, dCaught, remote>>

-----------------------------------------------------------------------------
(* Bounds of the model *)

\* longest requested region list (newRegions)
MaxNewRegions == 3
\* longest replica list a lookup reports
MaxReplicas == 3
\* longest describeStacks answer script
MaxScript == 3
\* longest list of scaling policies of the source table
MaxPolicies == 3
\* longest requested region list, and longest replica list a lookup reports,
\* in the runs of createGlobalTable
MaxTableRegions == 2
MaxTableReplicas == 2
\* most DynamoDB tables in the deployed stack
MaxTables == 2
\* most resources in the stack whose resources are listed page by page
MaxResources == 3
\* most calls of getRegionsToCreateGlobalTablesIn made one after the other
MaxCalls == 2

-----------------------------------------------------------------------------
(* Values *)

Regions == {"us-west-2", "us-west-1", "us-east-1"}

\* the `version` setting: 'v1', 'v2', or absent
Versions == {"v1", "v2", "undefined"}

SeqsUpTo(S, n) == UNION {[1..k -> S] : k \in 0..n}

\* provider error codes; a JS TypeError carries no code
NotFoundCode == "GlobalTableNotFoundException"
ErrorCodes == {NotFoundCode, "ResourceNotFoundException", "RandomError"}
ProviderError(c) == [name |-> "Error", code |-> c]
TypeError == [name |-> "TypeError", code |-> "undefined"]

\* service.custom.globalTables: absent, or an object whose settings are each
\* absent ("undefined", <<>>) or set; regions is <<>> or <<the list>>
GlobalTablesOptions(present, enabled, createStack, regions, version) ==
    [present |-> present, enabled |-> enabled, createStack |-> createStack,
     regions |-> regions, version |-> version]
NoConfig == GlobalTablesOptions(FALSE, "undefined", "undefined", <<>>, "undefined")
EmptyConfig == GlobalTablesOptions(TRUE, "undefined", "undefined", <<>>, "undefined")

\* a replica entry of ReplicationGroup / Replicas
Replica(r) == [RegionName |-> r]
ReplicaLists == {[i \in 1..Len(s) |-> Replica(s[i])] : s \in SeqsUpTo(Regions, MaxReplicas)}

\* A settled lookup: resolved with a descriptor whose replica list is present
\* (hasList) or undefined, or rejected with a provider error.
LookupResolved(hasList, list) ==
    [ok |-> TRUE, hasList |-> hasList, list |-> list, error |-> ProviderError("none")]
LookupRejected(e) ==
    [ok |-> FALSE, hasList |-> FALSE, list |-> <<>>, error |-> e]
LookupResponses ==
    {LookupResolved(TRUE, l) : l \in ReplicaLists}
        \cup {LookupResolved(FALSE, <<>>)}
        \cup {LookupRejected(ProviderError(c)) : c \in ErrorCodes}

-----------------------------------------------------------------------------
(* Array helpers, as the JS built-ins compute them *)

\* Array.prototype.includes
Includes(s, x) == \E i \in 1..Len(s) : s[i] = x

\* list.map(rg => rg.RegionName)
RegionNames(list) == [i \in 1..Len(list) |-> list[i].RegionName]

\* mutant: the filter keeps the covered regions instead
NotInInverted(candidates, exists) ==
    LET Keep(r) == Includes(exists, r)
    IN  SelectSeq(candidates, Keep)

\* candidates.filter(r => !exists.includes(r))
NotIn(candidates, exists) ==
    LET Keep(r) == ~Includes(exists, r)
    IN  SelectSeq(candidates, Keep)

-----------------------------------------------------------------------------
(* getRegionsToCreateGlobalTablesIn *)

Returns(v) == [threw |-> FALSE, value |-> <<v>>, error |-> <<>>]
Throws(e)  == [threw |-> TRUE,  value |-> <<>>,  error |-> <<e>>]

RegionDiffResult(missing, adding) ==
    [missingRegions |-> missing, addingNewRegions |-> adding]

\* mutant: the lookup is describeGlobalTable in every version
LookupCallAlwaysGlobal(version) == "describeGlobalTable"

\* the provider call the version selects
LookupCall(version) ==
    IF version = "v2" THEN "describeTable" ELSE "describeGlobalTable"

\* mutant: the source region is left out of the diff in every version
CandidateRegionsNoSource(region, newRegions, version) == newRegions

\* mutant: the source region is diffed in every version
CandidateRegionsAlwaysSource(region, newRegions, version) == <<region>> \o newRegions

\* mutant: the source region is diffed for version 'v1' only
CandidateRegionsOnlyV1(region, newRegions, version) ==
    IF version = "v1" THEN <<region>> \o newRegions ELSE newRegions

\* the list the topology is diffed against
CandidateRegions(region, newRegions, version) ==
    IF version = "v2" THEN newRegions ELSE <<region>> \o newRegions

\* regionsGlobalTableExists after a resolved lookup (the descriptor has a list)
RegionsGlobalTableExists(version, resp) ==
    IF version = "v2"
    THEN IF resp.hasList THEN RegionNames(resp.list) ELSE <<>>
    ELSE RegionNames(resp.list)

\* mutant: the flag is never raised
DiffOutcomeNeverAdding(missingRegions) ==
    [threw |-> FALSE,
     value |-> <<[missingRegions |-> missingRegions, addingNewRegions |-> FALSE]>>,
     error |-> <<>>]

\* the tail of the try block
DiffOutcome(missingRegions) ==
    IF Len(missingRegions) = 0
    THEN Returns(RegionDiffResult(<<>>, FALSE))
    ELSE Returns(RegionDiffResult(missingRegions, TRUE))

\* mutant: not-found is reported as an addition to an existing setup
CatchOutcomeAdding(e, newRegions) ==
    IF e.code # NotFoundCode
    THEN Throws(e)
    ELSE Returns(RegionDiffResult(newRegions, TRUE))

\* mutant: every lookup error is taken for not-found
CatchOutcomeSwallowsAll(e, newRegions) ==
    Returns(RegionDiffResult(newRegions, FALSE))

\* the catch block
CatchOutcome(e, newRegions) ==
    IF e.code # NotFoundCode
    THEN Throws(e)
    ELSE Returns(RegionDiffResult(newRegions, FALSE))

\* the try block after the lookup resolved: reading .map of an undefined
\* ReplicationGroup throws a TypeError, which the catch block sees
TryOutcome(region, newRegions, version, resp) ==
    IF version # "v2" /\ ~resp.hasList
    THEN CatchOutcome(TypeError, newRegions)
    ELSE DiffOutcome(NotIn(CandidateRegions(region, newRegions, version),
                           RegionsGlobalTableExists(version, resp)))

\* the function's outcome for a settled lookup
getRegionsToCreateGlobalTablesIn(region, newRegions, version, resp) ==
    IF resp.ok
    THEN TryOutcome(region, newRegions, version, resp)
    ELSE CatchOutcome(resp.error, newRegions)

-----------------------------------------------------------------------------
(* Initial states *)

rInit ==
    /\ rPc = "idle"
    /\ rArgs \in [region : Regions,
                  newRegions : SeqsUpTo(Regions, MaxNewRegions),
                  version : Versions]
    /\ rCalls = <<>>
    /\ rResp = <<>>
    /\ rReturned = <<>>
    /\ rThrown = <<>>

pIdle ==
    /\ pPc = "idle"
    /\ queries = 0
    /\ sleeps = 0
    /\ status = "undefined"
    /\ dotPrinted = FALSE
    /\ pReturned = <<>>
    /\ pThrown = <<>>

tIdle ==
    /\ tPc = "idle"
    /\ tArgs = [scalingPolicies |-> <<>>, hasThroughput |-> TRUE]
    /\ tCalls = <<>>
    /\ tResps = <<>>
    /\ tThrown = <<>>

uIdle ==
    /\ uPc = "idle"
    /\ uCalls = <<>>
    /\ uResps = <<>>
    /\ uThrown = <<>>

gIdle ==
    /\ gPc = "idle"
    /\ gCreateStack = TRUE
    /\ gParams = <<>>
    /\ gTableDef = <<>>
    /\ gTasks = <<>>
    /\ gIdx = 0
    /\ gCalls = <<>>
    /\ gInFlight = <<>>
    /\ gThrown = <<>>

lIdle ==
    /\ lPc = "idle"
    /\ stackResources = <<>>
    /\ pageSize = 1
    /\ lRequests = <<>>
    /\ nextToken = 0
    /\ tablesInStack = <<>>
    /\ lReturned = <<>>
    /\ lThrown = <<>>

\* the provider has no replication topology for the table
NoRemote == [exists |-> FALSE, regions |-> <<>>]

\* the provider's topology plays no part
NoProvider == remote = NoRemote

dIdle ==
    /\ dPc = "idle"
    /\ dOptions = <<>>
    /\ dCalls = <<>>
    /\ dTasks = <<>>
    /\ dCaught = <<>>

oIdle ==
    /\ oPc = "idle"
    /\ config = NoConfig
    /\ stackTables = <<>>
    /\ tableNames = <<>>
    /\ oIdx = 0
    /\ oCalls = <<>>
    /\ oCaught = <<>>

-----------------------------------------------------------------------------
(* Actions of getRegionsToCreateGlobalTablesIn *)

\* entry up to the await of the lookup
ResolveEnter ==
    /\ rPc' = "lookup"
    /\ rCalls' = Append(rCalls, LookupCall(rArgs.version))
    /\ rResp' = <<>>
    /\ rReturned' = <<>>
    /\ rThrown' = <<>>
    /\ UNCHANGED rArgs

\* the function is called on its own
ResolveCall ==
    /\ rPc = "idle"
    /\ ResolveEnter
    /\ UNCHANGED <<pVars, tVars, uVars, gVars, oVars, lVars, dVars, remote>>

\* the lookup settles; the rest of the function runs to its return or throw
ResolveSettle(resp) ==
    /\ rPc = "lookup"
    /\ LET out == getRegionsToCreateGlobalTablesIn(
                      rArgs.region, rArgs.newRegions, rArgs.version, resp)
       IN  /\ rPc' = IF out.threw THEN "thrown" ELSE "returned"
           /\ rReturned' = out.value
           /\ rThrown' = out.error
    /\ rResp' = <<resp>>
    /\ UNCHANGED <<rArgs, rCalls>>
    /\ UNCHANGED <<pVars, tVars, uVars, gVars, oVars, lVars, dVars, remote>>

LookupResolves ==
    \E resp \in LookupResponses : resp.ok /\ ResolveSettle(resp)

LookupRejects ==
    \E resp \in LookupResponses : ~resp.ok /\ ResolveSettle(resp)

InitResolve == rInit /\ pIdle /\ script = <<>> /\ tIdle /\ uIdle /\ gIdle /\ oIdle /\ lIdle /\ dIdle /\ NoProvider

NextResolve == ResolveCall \/ LookupResolves \/ LookupRejects

SpecResolve == InitResolve /\ [][NextResolve]_vars

\* the function is called again after a call has settled
ResolveRecall ==
    /\ rPc \in {"returned", "thrown"}
    /\ Len(rCalls) < MaxCalls
    /\ ResolveEnter
    /\ UNCHANGED <<pVars, tVars, uVars, gVars, oVars, lVars, dVars, remote>>

NextReResolve == ResolveCall \/ ResolveRecall \/ LookupResolves \/ LookupRejects

\* calls of the function one after the other
SpecReResolve == InitResolve /\ [][NextReResolve]_vars

-----------------------------------------------------------------------------
(* checkStackCreateUpdateStatus *)

STACKCOMPLETESTATUSES ==
    << "CREATE_COMPLETE",
       "ROLLBACK_FAILED",
       "ROLLBACK_COMPLETE",
       "UPDATE_COMPLETE",
       "UPDATE_ROLLBACK_FAILED",
       "UPDATE_ROLLBACK_COMPLETE" >>

\* stack statuses that are not in the list, a stack settled in one of them included
OtherStatuses ==
    {"CREATE_IN_PROGRESS", "UPDATE_ROLLBACK_IN_PROGRESS",
     "CREATE_FAILED", "DELETE_COMPLETE", "DELETE_FAILED"}

StackStatuses == {STACKCOMPLETESTATUSES[i] : i \in 1..Len(STACKCOMPLETESTATUSES)}
                     \cup OtherStatuses

\* String.prototype.includes
StrIncludes(s, sub) ==
    \E i \in 1..(Len(s) - Len(sub) + 1) : SubSeq(s, i, i + Len(sub) - 1) = sub

\* A settled describeStacks: resolved with Stacks[0].StackStatus, or rejected.
StacksResolved(st) == [ok |-> TRUE, StackStatus |-> st, error |-> ProviderError("none")]
StacksRejected(e)  == [ok |-> FALSE, StackStatus |-> "undefined", error |-> e]
StacksResponses ==
    {StacksResolved(st) : st \in StackStatuses}
        \cup {StacksRejected(ProviderError("Throttling"))}

Scripts == UNION {[1..k -> StacksResponses] : k \in 1..MaxScript}

\* the counters stop counting one past the longest script
CountCap == MaxScript + 1
Count(n) == IF n < CountCap THEN n + 1 ELSE n

\* the answer to the n-th describeStacks call: the script's last entry repeats
Answer(n) == script[IF n < Len(script) THEN n ELSE Len(script)]

\* mutant: any settled status leaves the loop
IsCompleteAnySettled(st) == StrIncludes(st, "COMPLETE") \/ StrIncludes(st, "FAILED")

\* the loop's exit test
IsComplete(st) == Includes(STACKCOMPLETESTATUSES, st)

\* mutant: failure is read off FAILED instead of ROLLBACK
StatusResultByFailed(st) == IF StrIncludes(st, "FAILED") THEN FALSE ELSE TRUE

\* the value returned once the loop has left with `status` = st
StatusResult(st) == IF StrIncludes(st, "ROLLBACK") THEN FALSE ELSE TRUE

-----------------------------------------------------------------------------
(* Actions of checkStackCreateUpdateStatus *)

\* entry up to the first await of describeStacks
PollEnter ==
    /\ pPc' = "query"
    /\ queries' = Count(0)
    /\ sleeps' = 0
    /\ status' = "undefined"
    /\ dotPrinted' = FALSE
    /\ pReturned' = <<>>
    /\ pThrown' = <<>>
    /\ UNCHANGED script

\* the function is called on its own
PollCall ==
    /\ pPc = "idle"
    /\ PollEnter
    /\ UNCHANGED <<rVars, tVars, uVars, gVars, oVars, lVars, dVars, remote>>

\* describeStacks resolves with a status of the list: break, classify, return
DescribeStacksComplete ==
    /\ pPc = "query"
    /\ Answer(queries).ok
    /\ IsComplete(Answer(queries).StackStatus)
    /\ status' = Answer(queries).StackStatus
    /\ pReturned' = <<StatusResult(status')>>
    /\ pPc' = "returned"
    /\ UNCHANGED <<script, queries, sleeps, dotPrinted, pThrown>>
    /\ UNCHANGED <<rVars, tVars, uVars, gVars, oVars, lVars, dVars, remote>>

\* mutant: the loop queries again at once, without sleeping
DescribeStacksInProgressNoSleep ==
    /\ pPc = "query"
    /\ Answer(queries).ok
    /\ ~Includes(STACKCOMPLETESTATUSES, Answer(queries).StackStatus)
    /\ dotPrinted' = TRUE
    /\ queries' = Count(queries)
    /\ UNCHANGED <<pPc, script, sleeps, status, pReturned, pThrown>>
    /\ UNCHANGED <<rVars, tVars, uVars, gVars, oVars, lVars, dVars, remote>>

\* describeStacks resolves with any other status: print a dot, start the sleep
DescribeStacksInProgress ==
    /\ pPc = "query"
    /\ Answer(queries).ok
    /\ ~IsComplete(Answer(queries).StackStatus)
    /\ dotPrinted' = TRUE
    /\ sleeps' = Count(sleeps)
    /\ pPc' = "sleep"
    /\ UNCHANGED <<script, queries, status, pReturned, pThrown>>
    /\ UNCHANGED <<rVars, tVars, uVars, gVars, oVars, lVars, dVars, remote>>

\* mutant: a rejected query is retried after the sleep
DescribeStacksRejectsRetries ==
    /\ pPc = "query"
    /\ ~Answer(queries).ok
    /\ sleeps' = Count(sleeps)
    /\ pPc' = "sleep"
    /\ UNCHANGED <<script, queries, status, dotPrinted, pReturned, pThrown>>
    /\ UNCHANGED <<rVars, tVars, uVars, gVars, oVars, lVars, dVars, remote>>

\* describeStacks rejects: nothing catches it
DescribeStacksRejects ==
    /\ pPc = "query"
    /\ ~Answer(queries).ok
    /\ pThrown' = <<Answer(queries).error>>
    /\ pPc' = "thrown"
    /\ UNCHANGED <<script, queries, sleeps, status, dotPrinted, pReturned>>
    /\ UNCHANGED <<rVars, tVars, uVars, gVars, oVars, lVars, dVars, remote>>

\* the sleep ends: next iteration, up to the await of describeStacks
SleepElapsed ==
    /\ pPc = "sleep"
    /\ pPc' = "query"
    /\ queries' = Count(queries)
    /\ UNCHANGED <<script, sleeps, status, dotPrinted, pReturned, pThrown>>
    /\ UNCHANGED <<rVars, tVars, uVars, gVars, oVars, lVars, dVars, remote>>

rIdle ==
    /\ rPc = "idle"
    /\ rArgs = [region |-> "us-west-2", newRegions |-> <<>>, version |-> "undefined"]
    /\ rCalls = <<>>
    /\ rResp = <<>>
    /\ rReturned = <<>>
    /\ rThrown = <<>>

InitPoll == pIdle /\ script \in Scripts /\ rIdle /\ tIdle /\ uIdle /\ gIdle /\ oIdle /\ lIdle /\ dIdle /\ NoProvider

NextPoll ==
    \/ PollCall
    \/ DescribeStacksComplete
    \/ DescribeStacksInProgress
    \/ DescribeStacksRejects
    \/ SleepElapsed

SpecPoll == InitPoll /\ [][NextPoll]_vars

\* every started describeStacks call settles and every started sleep ends
PollFairness ==
    /\ WF_vars(DescribeStacksComplete)
    /\ WF_vars(DescribeStacksInProgress)
    /\ WF_vars(DescribeStacksRejects)
    /\ WF_vars(SleepElapsed)

LiveSpecPoll == SpecPoll /\ PollFairness

-----------------------------------------------------------------------------
(* createNewTableAndSetScalingPolicy *)

WRITEAUOTSCALINGPOLICY == "WriteAutoScalingPolicy"
READAUOTSCALINGPOLICY == "ReadAutoScalingPolicy"

\* names of the scaling policies describeScalingPolicies reports for a table
PolicyNames == {WRITEAUOTSCALINGPOLICY, READAUOTSCALINGPOLICY, "OtherPolicy"}
ScalingPolicy(n) == [PolicyName |-> n]
ScalingPolicyLists ==
    {[i \in 1..Len(s) |-> ScalingPolicy(s[i])] : s \in SeqsUpTo(PolicyNames, MaxPolicies)}

\* scalingPolicies.find(p => p.PolicyName === name), as a truth value
FindPolicy(scalingPolicies, name) ==
    \E i \in 1..Len(scalingPolicies) : scalingPolicies[i].PolicyName = name

\* a provider call of the function: dimension is "none" for createTable
TableCall(op, dimension) == [op |-> op, dimension |-> dimension]
WriteDimension == "dynamodb:table:WriteCapacityUnits"
ReadDimension == "dynamodb:table:ReadCapacityUnits"

TableExistsCode == "ResourceInUseException"
\* what createTable / the Application Auto Scaling calls reject with
CreateTableErrorCodes == {TableExistsCode, "RandomError"}
ScalingErrorCodes == {TableExistsCode, "RandomError"}

\* return, throw, and issue the next awaited call
TblReturn ==
    /\ tPc' = "returned"
    /\ UNCHANGED <<tArgs, tCalls, tThrown>>

TblThrow(e) ==
    /\ tPc' = "thrown"
    /\ tThrown' = <<e>>
    /\ UNCHANGED <<tArgs, tCalls>>

TblIssue(pc, call) ==
    /\ tPc' = pc
    /\ tCalls' = Append(tCalls, call)
    /\ UNCHANGED <<tArgs, tThrown>>

\* mutant: an existing table is reported as a failure
TblCatchRethrowsAll(e) == TblThrow(e)

\* the catch block
TblCatch(e) ==
    IF e.code = TableExistsCode THEN TblReturn ELSE TblThrow(e)

\* the `if (writePolicy)` / `if (readPolicy)` body up to registerScalableTarget:
\* reading the capacity units of an undefined ProvisionedThroughput throws
TblRegister(pc, dimension) ==
    IF tArgs.hasThroughput
    THEN TblIssue(pc, TableCall("registerScalableTarget", dimension))
    ELSE TblCatch(TypeError)

\* from `if (readPolicy)` on
TblReadPart ==
    IF FindPolicy(tArgs.scalingPolicies, READAUOTSCALINGPOLICY)
    THEN TblRegister("registerRead", ReadDimension)
    ELSE TblReturn

\* from `if (scalingPolicies.length)` on
TblAfterCreate ==
    IF Len(tArgs.scalingPolicies) = 0
    THEN TblReturn
    ELSE IF FindPolicy(tArgs.scalingPolicies, WRITEAUOTSCALINGPOLICY)
         THEN TblRegister("registerWrite", WriteDimension)
         ELSE TblReadPart

\* entry up to the await of createTable
TblEnter ==
    /\ tPc' = "createTable"
    /\ tCalls' = <<TableCall("createTable", "none")>>
    /\ tResps' = <<>>
    /\ tThrown' = <<>>
    /\ UNCHANGED tArgs

TblCall ==
    /\ tPc = "idle"
    /\ TblEnter
    /\ UNCHANGED <<rVars, pVars, uVars, gVars, oVars, lVars, dVars, remote>>

CreateTableResolves ==
    /\ tPc = "createTable"
    /\ tResps' = Append(tResps, "ok")
    /\ TblAfterCreate
    /\ UNCHANGED <<rVars, pVars, uVars, gVars, oVars, lVars, dVars, remote>>

CreateTableRejects ==
    /\ tPc = "createTable"
    /\ \E c \in CreateTableErrorCodes :
          TblCatch(ProviderError(c)) /\ tResps' = Append(tResps, c)
    /\ UNCHANGED <<rVars, pVars, uVars, gVars, oVars, lVars, dVars, remote>>

RegisterWriteResolves ==
    /\ tPc = "registerWrite"
    /\ tResps' = Append(tResps, "ok")
    /\ TblIssue("putWrite", TableCall("putScalingPolicy", WriteDimension))
    /\ UNCHANGED <<rVars, pVars, uVars, gVars, oVars, lVars, dVars, remote>>

PutWriteResolves ==
    /\ tPc = "putWrite"
    /\ tResps' = Append(tResps, "ok")
    /\ TblReadPart
    /\ UNCHANGED <<rVars, pVars, uVars, gVars, oVars, lVars, dVars, remote>>

RegisterReadResolves ==
    /\ tPc = "registerRead"
    /\ tResps' = Append(tResps, "ok")
    /\ TblIssue("putRead", TableCall("putScalingPolicy", ReadDimension))
    /\ UNCHANGED <<rVars, pVars, uVars, gVars, oVars, lVars, dVars, remote>>

PutReadResolves ==
    /\ tPc = "putRead"
    /\ tResps' = Append(tResps, "ok")
    /\ TblReturn
    /\ UNCHANGED <<rVars, pVars, uVars, gVars, oVars, lVars, dVars, remote>>

\* registerScalableTarget or putScalingPolicy rejects
ScalingCallRejects ==
    /\ tPc \in {"registerWrite", "putWrite", "registerRead", "putRead"}
    /\ \E c \in ScalingErrorCodes :
          TblCatch(ProviderError(c)) /\ tResps' = Append(tResps, c)
    /\ UNCHANGED <<rVars, pVars, uVars, gVars, oVars, lVars, dVars, remote>>

tInit ==
    /\ tPc = "idle"
    /\ tArgs \in [scalingPolicies : ScalingPolicyLists, hasThroughput : BOOLEAN]
    /\ tCalls = <<>>
    /\ tResps = <<>>
    /\ tThrown = <<>>

InitTable == tInit /\ rIdle /\ pIdle /\ script = <<>> /\ uIdle /\ gIdle /\ oIdle /\ lIdle /\ dIdle /\ NoProvider

NextTable ==
    \/ TblCall
    \/ CreateTableResolves
    \/ CreateTableRejects
    \/ RegisterWriteResolves
    \/ PutWriteResolves
    \/ RegisterReadResolves
    \/ PutReadResolves
    \/ ScalingCallRejects

SpecTable == InitTable /\ [][NextTable]_vars

-----------------------------------------------------------------------------
(* createUpdateCfnStack *)

StackExistsCode == "AlreadyExistsException"
NoUpdatesCode == "ValidationError"
\* what createStack and updateStack reject with
StackErrorCodes == {StackExistsCode, NoUpdatesCode, "RandomError"}

CfnIssue(pc, call) ==
    /\ uPc' = pc
    /\ uCalls' = Append(uCalls, call)
    /\ UNCHANGED uThrown

CfnThrow(e) ==
    /\ uPc' = "thrown"
    /\ uThrown' = <<e>>
    /\ UNCHANGED <<uCalls, pVars>>

\* `await module.exports.checkStackCreateUpdateStatus(...)`: the poll starts
CfnCheck ==
    /\ CfnIssue("check", "checkStackCreateUpdateStatus")
    /\ PollEnter

\* `if (update)` taken: up to the await of updateStack
CfnUpdate ==
    /\ CfnIssue("updateStack", "updateStack")
    /\ UNCHANGED pVars

\* the catch block of createStack, and what follows it
CfnCreateCatch(err) ==
    IF err.code = StackExistsCode THEN CfnUpdate ELSE CfnThrow(err)

\* mutant: a stack with nothing to update is reported as a failure
CfnUpdateCatchRethrowsAll(err) == CfnThrow(err)

\* the catch block of updateStack, and what follows it
CfnUpdateCatch(err) ==
    IF err.code # NoUpdatesCode THEN CfnThrow(err) ELSE CfnCheck

\* mutant: the stack is updated after a successful createStack as well
CfnAfterCreateUpdates == CfnUpdate

\* createStack resolved: `update` is still false
CfnAfterCreate == CfnCheck

\* entry up to the await of createStack
CfnEnter ==
    /\ uPc' = "createStack"
    /\ uCalls' = <<"createStack">>
    /\ uResps' = <<>>
    /\ uThrown' = <<>>

CfnCall ==
    /\ uPc = "idle"
    /\ CfnEnter
    /\ UNCHANGED <<rVars, pVars, tVars, gVars, oVars, lVars, dVars, remote>>

CreateStackResolves ==
    /\ uPc = "createStack"
    /\ uResps' = Append(uResps, "ok")
    /\ CfnAfterCreate
    /\ UNCHANGED <<rVars, tVars, gVars, oVars, lVars, dVars, remote>>

CreateStackRejects ==
    /\ uPc = "createStack"
    /\ \E c \in StackErrorCodes :
          CfnCreateCatch(ProviderError(c)) /\ uResps' = Append(uResps, c)
    /\ UNCHANGED <<rVars, tVars, gVars, oVars, lVars, dVars, remote>>

UpdateStackResolves ==
    /\ uPc = "updateStack"
    /\ uResps' = Append(uResps, "ok")
    /\ CfnCheck
    /\ UNCHANGED <<rVars, tVars, gVars, oVars, lVars, dVars, remote>>

UpdateStackRejects ==
    /\ uPc = "updateStack"
    /\ \E c \in StackErrorCodes :
          CfnUpdateCatch(ProviderError(c)) /\ uResps' = Append(uResps, c)
    /\ UNCHANGED <<rVars, tVars, gVars, oVars, lVars, dVars, remote>>

\* the status check returned: stackSuccess is only logged
CfnCheckReturns ==
    /\ uPc = "check"
    /\ pPc = "returned"
    /\ uPc' = "returned"
    /\ uResps' = Append(uResps, IF pReturned[1] THEN "true" ELSE "false")
    /\ UNCHANGED <<uCalls, uThrown>>
    /\ UNCHANGED <<rVars, pVars, tVars, gVars, oVars, lVars, dVars, remote>>

\* the status check rejected: nothing catches it
CfnCheckThrows ==
    /\ uPc = "check"
    /\ pPc = "thrown"
    /\ uPc' = "thrown"
    /\ uThrown' = pThrown
    /\ uResps' = Append(uResps, pThrown[1].code)
    /\ UNCHANGED uCalls
    /\ UNCHANGED <<rVars, pVars, tVars, gVars, oVars, lVars, dVars, remote>>

InitCfn == uIdle /\ pIdle /\ script \in Scripts /\ rIdle /\ tIdle /\ gIdle /\ oIdle /\ lIdle /\ dIdle /\ NoProvider

NextCfn ==
    \/ CfnCall
    \/ CreateStackResolves
    \/ CreateStackRejects
    \/ UpdateStackResolves
    \/ UpdateStackRejects
    \/ DescribeStacksComplete
    \/ DescribeStacksInProgress
    \/ DescribeStacksRejects
    \/ SleepElapsed
    \/ CfnCheckReturns
    \/ CfnCheckThrows

SpecCfn == InitCfn /\ [][NextCfn]_vars

-----------------------------------------------------------------------------
(* createGlobalTable, createGlobalTableV1, createGlobalTableV2 *)

\* a provider call of createGlobalTable after the lookup; regions are the
\* RegionName entries of its ReplicationGroup / ReplicaUpdates, in order
GlobalCall(op, regions) == [op |-> op, regions |-> regions]

\* what the calls of createGlobalTable and the per-region tasks reject with
GlobalErrorCodes == {"RandomError"}

\* Table of a describeTable response: the billing mode and the provisioned
\* throughput, which is zero for an on-demand table
TableDef(billingMode, read, write) ==
    [BillingMode |-> billingMode, ReadCapacityUnits |-> read, WriteCapacityUnits |-> write]
TableDefs ==
    {TableDef("PAY_PER_REQUEST", 0, 0), TableDef("PROVISIONED", 1, 2),
     TableDef("undefined", 5, 5)}

\* mutant: the throughput is copied whatever the billing mode is
CapacitySettingBoth(tableDef) ==
    [BillingMode |-> IF tableDef.BillingMode = "PAY_PER_REQUEST"
                     THEN "PAY_PER_REQUEST" ELSE "undefined",
     ProvisionedThroughput |->
         <<[ReadCapacityUnits |-> tableDef.ReadCapacityUnits,
            WriteCapacityUnits |-> tableDef.WriteCapacityUnits]>>]

\* the `if (billingModeSummary && ...)` statement: the fields it sets
\* (ProvisionedThroughput is <<>> when not set)
CapacitySetting(tableDef) ==
    IF tableDef.BillingMode # "undefined" /\ tableDef.BillingMode = "PAY_PER_REQUEST"
    THEN [BillingMode |-> "PAY_PER_REQUEST", ProvisionedThroughput |-> <<>>]
    ELSE [BillingMode |-> "undefined",
          ProvisionedThroughput |->
              <<[ReadCapacityUnits |-> tableDef.ReadCapacityUnits,
                 WriteCapacityUnits |-> tableDef.WriteCapacityUnits]>>]

\* createTableParams as built from the describeTable response
CreateTableParams(tableDef) ==
    [StreamEnabled |-> TRUE,
     StreamViewType |-> "NEW_AND_OLD_IMAGES",
     BillingMode |-> CapacitySetting(tableDef).BillingMode,
     ProvisionedThroughput |-> CapacitySetting(tableDef).ProvisionedThroughput]

\* the destructured result of the resolver
regionsToUpdate == rReturned[1].missingRegions
addingNewRegions == rReturned[1].addingNewRegions

\* the positions at which createGlobalTable awaits a provider call of its own
AwaitedCalls ==
    {"describeTable", "listTagsOfResource", "describeScalingPolicies",
     "createGlobalTable", "updateGlobalTable", "waitBefore", "updateTable", "waitAfter"}

\* the calls still in flight when the code after an await runs: the awaited
\* call, the last one issued, has settled
GtAwaited ==
    IF gPc \in AwaitedCalls
    THEN SubSeq(gInFlight, 1, Len(gInFlight) - 1)
    ELSE gInFlight

GtIssue(pc, call) ==
    /\ gPc' = pc
    /\ gCalls' = Append(gCalls, call)
    /\ gInFlight' = Append(GtAwaited, call)
    /\ UNCHANGED gThrown

GtReturn ==
    /\ gPc' = "returned"
    /\ gInFlight' = GtAwaited
    /\ UNCHANGED <<gCalls, gThrown>>

GtThrow(e) ==
    /\ gPc' = "thrown"
    /\ gThrown' = <<e>>
    /\ gInFlight' = GtAwaited
    /\ UNCHANGED gCalls

\* mutant: the replication group is built from the missing regions alone
ReplicationGroupNoSource(region, regions) == regions

\* replicationGroup of createGlobalTableV1, as region names
ReplicationGroup(region, regions) == <<region>> \o regions

\* mutant: createGlobalTableV1 calls createGlobalTable whatever the flag is
GtV1AlwaysCreates ==
    /\ GtIssue("createGlobalTable",
               GlobalCall("createGlobalTable", ReplicationGroup(rArgs.region, regionsToUpdate)))
    /\ UNCHANGED gIdx

\* createGlobalTableV1 up to its await
GtV1 ==
    /\ IF ~addingNewRegions
       THEN GtIssue("createGlobalTable",
                    GlobalCall("createGlobalTable", ReplicationGroup(rArgs.region, regionsToUpdate)))
       ELSE GtIssue("updateGlobalTable", GlobalCall("updateGlobalTable", regionsToUpdate))
    /\ UNCHANGED gIdx

\* mutant: the replica is created without waiting for the table first
GtV2IterateNoWait(i) ==
    IF i > Len(regionsToUpdate)
    THEN GtReturn /\ UNCHANGED gIdx
    ELSE GtIssue("updateTable", GlobalCall("updateTable", <<regionsToUpdate[i]>>)) /\ gIdx' = i

\* mutant: the loop of createGlobalTableV2 ends after its first region
GtV2IterateFirstOnly(i) ==
    IF i > 1
    THEN GtReturn /\ UNCHANGED gIdx
    ELSE GtIssue("waitBefore", GlobalCall("waitFor", <<>>)) /\ gIdx' = i

\* one iteration of the loop of createGlobalTableV2 up to its first await,
\* or the end of the loop
GtV2Iterate(i) ==
    IF i > Len(regionsToUpdate)
    THEN GtReturn /\ UNCHANGED gIdx
    ELSE GtIssue("waitBefore", GlobalCall("waitFor", <<>>)) /\ gIdx' = i

\* mutant: the choice between create and update asks the provider again
GtLinkReadsProvider ==
    IF rArgs.version = "v2"
    THEN GtV2Iterate(1)
    ELSE /\ IF ~remote.exists
            THEN GtIssue("createGlobalTable",
                         GlobalCall("createGlobalTable", ReplicationGroup(rArgs.region, regionsToUpdate)))
            ELSE GtIssue("updateGlobalTable", GlobalCall("updateGlobalTable", regionsToUpdate))
         /\ UNCHANGED gIdx

\* the dispatch on version at the end of createGlobalTable
GtLink ==
    IF rArgs.version = "v2" THEN GtV2Iterate(1) ELSE GtV1

\* mutant: an empty missingRegions does not end the call
GtNothingToDoNever(regions) == FALSE

\* `!regionsToUpdate.length`
GtNothingToDo(regions) == Len(regions) = 0

\* from the return of the resolver up to the next await
GtAfterResolve ==
    IF GtNothingToDo(regionsToUpdate)
    THEN GtReturn /\ UNCHANGED <<gParams, gTableDef, gTasks, gIdx>>
    ELSE IF ~gCreateStack /\ rArgs.version # "v2"
         THEN /\ GtIssue("describeTable", GlobalCall("describeTable", <<>>))
              /\ UNCHANGED <<gParams, gTableDef, gTasks, gIdx>>
         ELSE GtLink /\ UNCHANGED <<gParams, gTableDef, gTasks>>

\* entry up to the await of the resolver
GtEnter(createStack) ==
    /\ gPc' = "resolve"
    /\ gCreateStack' = createStack
    /\ gParams' = <<>>
    /\ gTableDef' = <<>>
    /\ gTasks' = <<>>
    /\ gIdx' = 0
    /\ gCalls' = <<>>
    /\ gThrown' = <<>>
    /\ UNCHANGED gInFlight
    /\ ResolveEnter

GtCall ==
    /\ gPc = "idle"
    /\ GtEnter(gCreateStack)
    /\ UNCHANGED <<pVars, tVars, uVars, oVars, lVars, dVars, remote>>

\* the lookups the runs of createGlobalTable are checked with
TableLookupResponses == {resp \in LookupResponses : Len(resp.list) <= MaxTableReplicas}

TableLookupSettles ==
    /\ gPc = "resolve"
    /\ \E resp \in TableLookupResponses : ResolveSettle(resp)

GtResolverReturned ==
    /\ gPc = "resolve"
    /\ rPc = "returned"
    /\ GtAfterResolve
    /\ UNCHANGED gCreateStack
    /\ UNCHANGED <<rVars, pVars, tVars, uVars, oVars, lVars, dVars, remote>>

\* the resolver rejected: nothing catches it
GtResolverThrew ==
    /\ gPc = "resolve"
    /\ rPc = "thrown"
    /\ GtThrow(rThrown[1])
    /\ UNCHANGED <<gCreateStack, gParams, gTableDef, gTasks, gIdx>>
    /\ UNCHANGED <<rVars, pVars, tVars, uVars, oVars, lVars, dVars, remote>>

DescribeTableResolves ==
    /\ gPc = "describeTable"
    /\ \E tableDef \in TableDefs :
          /\ gTableDef' = <<tableDef>>
          /\ gParams' = <<CreateTableParams(tableDef)>>
    /\ GtIssue("listTagsOfResource", GlobalCall("listTagsOfResource", <<>>))
    /\ UNCHANGED <<gCreateStack, gTasks, gIdx>>
    /\ UNCHANGED <<rVars, pVars, tVars, uVars, oVars, lVars, dVars, remote>>

ListTagsResolves ==
    /\ gPc = "listTagsOfResource"
    /\ GtIssue("describeScalingPolicies", GlobalCall("describeScalingPolicies", <<>>))
    /\ UNCHANGED <<gCreateStack, gParams, gTableDef, gTasks, gIdx>>
    /\ UNCHANGED <<rVars, pVars, tVars, uVars, oVars, lVars, dVars, remote>>

\* regionsToUpdate.map(...): one createNewTableAndSetScalingPolicy per region,
\* all started before Promise.all is awaited
DescribeScalingPoliciesResolves ==
    /\ gPc = "describeScalingPolicies"
    /\ gPc' = "tasks"
    /\ gTasks' = [i \in 1..Len(regionsToUpdate) |->
                     [region |-> regionsToUpdate[i], params |-> gParams[1],
                      state |-> "pending"]]
    /\ gInFlight' = GtAwaited
    /\ UNCHANGED <<gCreateStack, gParams, gTableDef, gIdx, gCalls, gThrown>>
    /\ UNCHANGED <<rVars, pVars, tVars, uVars, oVars, lVars, dVars, remote>>

\* mutant: Promise.all resolves with the first task that resolves
AllResolvedAny(tasks) == \E i \in 1..Len(tasks) : tasks[i].state = "resolved"

\* Promise.all of the per-region tasks has resolved
AllResolved(tasks) == \A i \in 1..Len(tasks) : tasks[i].state = "resolved"

\* a per-region task resolves; Promise.all resolves with the last of them
TaskResolves ==
    /\ \E i \in 1..Len(gTasks) :
          /\ gTasks[i].state = "pending"
          /\ gTasks' = [gTasks EXCEPT ![i].state = "resolved"]
    /\ IF gPc = "tasks" /\ AllResolved(gTasks')
       THEN GtLink
       ELSE UNCHANGED <<gPc, gCalls, gInFlight, gThrown, gIdx>>
    /\ UNCHANGED <<gCreateStack, gParams, gTableDef>>
    /\ UNCHANGED <<rVars, pVars, tVars, uVars, oVars, lVars, dVars, remote>>

\* a per-region task rejects; Promise.all rejects with the first rejection,
\* the other tasks keep running
TaskRejects ==
    /\ \E i \in 1..Len(gTasks) :
          /\ gTasks[i].state = "pending"
          /\ gTasks' = [gTasks EXCEPT ![i].state = "rejected"]
    /\ IF gPc = "tasks"
       THEN \E c \in GlobalErrorCodes : GtThrow(ProviderError(c))
       ELSE UNCHANGED <<gPc, gCalls, gInFlight, gThrown>>
    /\ UNCHANGED <<gCreateStack, gParams, gTableDef, gIdx>>
    /\ UNCHANGED <<rVars, pVars, tVars, uVars, oVars, lVars, dVars, remote>>

\* createGlobalTable / updateGlobalTable resolved: createGlobalTableV1 returns
LinkResolves ==
    /\ gPc \in {"createGlobalTable", "updateGlobalTable"}
    /\ GtReturn
    /\ UNCHANGED <<gCreateStack, gParams, gTableDef, gTasks, gIdx>>
    /\ UNCHANGED <<rVars, pVars, tVars, uVars, oVars, lVars, dVars, remote>>

WaitBeforeResolves ==
    /\ gPc = "waitBefore"
    /\ GtIssue("updateTable", GlobalCall("updateTable", <<regionsToUpdate[gIdx]>>))
    /\ UNCHANGED <<gCreateStack, gParams, gTableDef, gTasks, gIdx>>
    /\ UNCHANGED <<rVars, pVars, tVars, uVars, oVars, lVars, dVars, remote>>

UpdateTableResolves ==
    /\ gPc = "updateTable"
    /\ GtIssue("waitAfter", GlobalCall("waitFor", <<>>))
    /\ UNCHANGED <<gCreateStack, gParams, gTableDef, gTasks, gIdx>>
    /\ UNCHANGED <<rVars, pVars, tVars, uVars, oVars, lVars, dVars, remote>>

WaitAfterResolves ==
    /\ gPc = "waitAfter"
    /\ GtV2Iterate(gIdx + 1)
    /\ UNCHANGED <<gCreateStack, gParams, gTableDef, gTasks>>
    /\ UNCHANGED <<rVars, pVars, tVars, uVars, oVars, lVars, dVars, remote>>

\* an awaited provider call of createGlobalTable rejects: nothing catches it
GtCallRejects ==
    /\ gPc \in AwaitedCalls
    /\ \E c \in GlobalErrorCodes : GtThrow(ProviderError(c))
    /\ UNCHANGED <<gCreateStack, gParams, gTableDef, gTasks, gIdx>>
    /\ UNCHANGED <<rVars, pVars, tVars, uVars, oVars, lVars, dVars, remote>>

gInit ==
    /\ gPc = "idle"
    /\ gCreateStack \in BOOLEAN
    /\ gParams = <<>>
    /\ gTableDef = <<>>
    /\ gTasks = <<>>
    /\ gIdx = 0
    /\ gCalls = <<>>
    /\ gInFlight = <<>>
    /\ gThrown = <<>>
    /\ rPc = "idle"
    /\ rArgs \in [region : Regions,
                  newRegions : SeqsUpTo(Regions, MaxTableRegions),
                  version : Versions]
    /\ rCalls = <<>>
    /\ rResp = <<>>
    /\ rReturned = <<>>
    /\ rThrown = <<>>

InitGlobalTable == gInit /\ pIdle /\ script = <<>> /\ tIdle /\ uIdle /\ oIdle /\ lIdle /\ dIdle /\ NoProvider

NextGlobalTable ==
    \/ GtCall
    \/ TableLookupSettles
    \/ GtResolverReturned
    \/ GtResolverThrew
    \/ DescribeTableResolves
    \/ ListTagsResolves
    \/ DescribeScalingPoliciesResolves
    \/ TaskResolves
    \/ TaskRejects
    \/ LinkResolves
    \/ WaitBeforeResolves
    \/ UpdateTableResolves
    \/ WaitAfterResolves
    \/ GtCallRejects

SpecGlobalTable == InitGlobalTable /\ [][NextGlobalTable]_vars

-----------------------------------------------------------------------------
(* createGlobalDynamodbTable *)

\* provider.getRegion()
SourceRegion == "us-west-2"

Flags == {"undefined", "true", "false"}

\* the `regions` setting: a list that names each of its regions once
RegionLists ==
    {l \in SeqsUpTo(Regions, MaxTableRegions) :
        \A i, j \in 1..Len(l) : l[i] = l[j] => i = j}

\* the configurations the function is run with: none, an empty object, and
\* objects that list regions, with or without the other settings
Configs ==
    {NoConfig, EmptyConfig}
        \cup {GlobalTablesOptions(TRUE, e, c, <<l>>, v) :
                e \in Flags, c \in Flags, l \in RegionLists, v \in Versions}

\* Object.keys(globalTablesOptions).length
ConfigKeys(c) ==
    (IF c.enabled # "undefined" THEN 1 ELSE 0)
        + (IF c.createStack # "undefined" THEN 1 ELSE 0)
        + (IF c.regions # <<>> THEN 1 ELSE 0)
        + (IF c.version # "undefined" THEN 1 ELSE 0)

\* mutant: only an absent configuration is skipped
ConfigMissingOnlyAbsent(c) == ~c.present

\* the condition of the first `if`
ConfigMissing(c) ==
    \/ ~c.present
    \/ ConfigKeys(c) = 0
    \/ c.enabled # "true"

\* globalTablesOptions.regions
ConfigRegions(c) == IF c.regions = <<>> THEN <<>> ELSE c.regions[1]

\* physical ids of the tables of the stack, in listing order
AllTableNames == <<"table-1", "table-2", "table-3", "table-4">>
TableNameLists == {SubSeq(AllTableNames, 1, k) : k \in 0..MaxTables}

\* what describeStacks answers during the regional deployments
DeployScripts ==
    {<<StacksResolved("CREATE_COMPLETE")>>,
     <<StacksResolved("CREATE_IN_PROGRESS"), StacksResolved("UPDATE_ROLLBACK_COMPLETE")>>,
     <<StacksRejected(ProviderError("Throttling"))>>}

\* a helper call of createGlobalDynamodbTable; arg is the region or the table
\* name, createStack the flag passed to createGlobalTable ("none" otherwise)
HelperCall(op, arg, createStack) == [op |-> op, arg |-> arg, createStack |-> createStack]

OrchReturn ==
    /\ oPc' = "done"
    /\ UNCHANGED <<oIdx, oCalls, oCaught>>
    /\ UNCHANGED <<rVars, pVars, uVars, gVars>>

\* mutant: the error leaves the function
OrchCatchRethrows(error) ==
    /\ oPc' = "rejected"
    /\ UNCHANGED <<oIdx, oCalls, oCaught>>
    /\ UNCHANGED <<rVars, pVars, uVars, gVars>>

\* the catch block: the error is logged
OrchCatch(error) ==
    /\ oPc' = "done"
    /\ oCaught' = <<error>>
    /\ UNCHANGED <<oIdx, oCalls>>
    /\ UNCHANGED <<rVars, pVars, uVars, gVars>>

\* one iteration of `for (let tableName of tableNames)` up to its await
OrchTable(i, names, createStack) ==
    IF i > Len(names)
    THEN OrchReturn
    ELSE /\ oPc' = "table"
         /\ oIdx' = i
         /\ oCalls' = Append(oCalls, HelperCall("createGlobalTable", names[i],
                                                IF createStack THEN "true" ELSE "false"))
         /\ GtEnter(createStack)
         /\ UNCHANGED oCaught
         /\ UNCHANGED <<pVars, uVars>>

\* one iteration of `for (let newRegion of globalTablesOptions.regions)` up to
\* its await; after the last one the loop over the tables starts
OrchDeploy(i, names) ==
    IF i > Len(ConfigRegions(config))
    THEN OrchTable(1, names, TRUE)
    ELSE /\ oPc' = "cfn"
         /\ oIdx' = i
         /\ oCalls' = Append(oCalls, HelperCall("createUpdateCfnStack",
                                                ConfigRegions(config)[i], "none"))
         /\ CfnEnter
         /\ UNCHANGED oCaught
         /\ UNCHANGED <<rVars, pVars, gVars>>

\* entry up to the await of getTableNamesFromStack, or the early return
OrchCall ==
    /\ oPc = "idle"
    /\ IF ConfigMissing(config)
       THEN OrchReturn
       ELSE /\ oPc' = "list"
            /\ oCalls' = Append(oCalls, HelperCall("getTableNamesFromStack", "none", "none"))
            /\ UNCHANGED <<oIdx, oCaught>>
            /\ UNCHANGED <<rVars, pVars, uVars, gVars>>
    /\ UNCHANGED <<config, stackTables, tableNames>>
    /\ UNCHANGED <<tVars, lVars, dVars, remote>>

ListResolves ==
    /\ oPc = "list"
    /\ tableNames' = stackTables
    /\ IF Len(stackTables) = 0
       THEN OrchReturn
       ELSE IF config.createStack = "false"
            THEN OrchTable(1, stackTables, FALSE)
            ELSE OrchDeploy(1, stackTables)
    /\ UNCHANGED <<config, stackTables>>
    /\ UNCHANGED <<tVars, lVars, dVars, remote>>

ListRejects ==
    /\ oPc = "list"
    /\ \E c \in GlobalErrorCodes : OrchCatch(ProviderError(c))
    /\ UNCHANGED <<config, stackTables, tableNames>>
    /\ UNCHANGED <<tVars, lVars, dVars, remote>>

OrchCfnReturned ==
    /\ oPc = "cfn"
    /\ uPc = "returned"
    /\ OrchDeploy(oIdx + 1, tableNames)
    /\ UNCHANGED <<config, stackTables, tableNames>>
    /\ UNCHANGED <<tVars, lVars, dVars, remote>>

OrchCfnThrew ==
    /\ oPc = "cfn"
    /\ uPc = "thrown"
    /\ OrchCatch(uThrown[1])
    /\ UNCHANGED <<config, stackTables, tableNames>>
    /\ UNCHANGED <<tVars, lVars, dVars, remote>>

\* mutant: the loop starts the next table while the linkage call of the one
\* before is still awaited
OrchTableReturnedNoAwait ==
    /\ oPc = "table"
    /\ gPc \in {"createGlobalTable", "updateGlobalTable", "updateTable", "returned"}
    /\ OrchTable(oIdx + 1, tableNames, gCreateStack)
    /\ UNCHANGED <<config, stackTables, tableNames>>
    /\ UNCHANGED <<tVars, lVars, dVars, remote>>

\* createGlobalTable has returned: the next iteration of the loop over the tables
OrchTableReturned ==
    /\ oPc = "table"
    /\ gPc = "returned"
    /\ OrchTable(oIdx + 1, tableNames, gCreateStack)
    /\ UNCHANGED <<config, stackTables, tableNames>>
    /\ UNCHANGED <<tVars, lVars, dVars, remote>>

OrchTableThrew ==
    /\ oPc = "table"
    /\ gPc = "thrown"
    /\ OrchCatch(gThrown[1])
    /\ UNCHANGED <<config, stackTables, tableNames>>
    /\ UNCHANGED <<tVars, lVars, dVars, remote>>

oInit ==
    /\ oPc = "idle"
    /\ config \in Configs
    /\ stackTables \in TableNameLists
    /\ tableNames = <<>>
    /\ oIdx = 0
    /\ oCalls = <<>>
    /\ oCaught = <<>>
    /\ rPc = "idle"
    /\ rArgs = [region |-> SourceRegion,
                newRegions |-> ConfigRegions(config),
                version |-> config.version]
    /\ rCalls = <<>>
    /\ rResp = <<>>
    /\ rReturned = <<>>
    /\ rThrown = <<>>

InitOrch == oInit /\ pIdle /\ script \in DeployScripts /\ tIdle /\ uIdle /\ gIdle /\ lIdle /\ dIdle /\ NoProvider

NextOrch ==
    \/ OrchCall
    \/ ListResolves
    \/ ListRejects
    \/ OrchCfnReturned
    \/ OrchCfnThrew
    \/ OrchTableReturned
    \/ OrchTableThrew
    \/ CreateStackResolves
    \/ CreateStackRejects
    \/ UpdateStackResolves
    \/ UpdateStackRejects
    \/ CfnCheckReturns
    \/ CfnCheckThrows
    \/ DescribeStacksComplete
    \/ DescribeStacksInProgress
    \/ DescribeStacksRejects
    \/ SleepElapsed
    \/ TableLookupSettles
    \/ GtResolverReturned
    \/ GtResolverThrew
    \/ DescribeTableResolves
    \/ ListTagsResolves
    \/ DescribeScalingPoliciesResolves
    \/ TaskResolves
    \/ TaskRejects
    \/ LinkResolves
    \/ WaitBeforeResolves
    \/ UpdateTableResolves
    \/ WaitAfterResolves
    \/ GtCallRejects

SpecOrch == InitOrch /\ [][NextOrch]_vars

-----------------------------------------------------------------------------
(* getTableNamesFromStack *)

TableType == "AWS::DynamoDB::Table"
ResourceTypes == {TableType, "AWS::S3::Bucket"}

\* PhysicalResourceId of a stack resource summary: a name, null, or absent
PhysicalIds == {"test-table", "test-bucket", "null", "undefined"}

StackResourceSummary(type, id) == [ResourceType |-> type, PhysicalResourceId |-> id]
StackResourceSummaries ==
    {StackResourceSummary(ty, id) : ty \in ResourceTypes, id \in PhysicalIds}

Min(a, b) == IF a < b THEN a ELSE b

\* the answer of listStackResources to a request carrying NextToken = token:
\* the page after the `token` pages already served, and a NextToken when
\* more resources follow
ListStackResourcesResponse(token) ==
    [StackResourceSummaries |->
         SubSeq(stackResources, token * pageSize + 1,
                Min((token + 1) * pageSize, Len(stackResources))),
     NextToken |->
         IF (token + 1) * pageSize < Len(stackResources) THEN token + 1 ELSE 0]

\* mutant: the type filter keeps everything but tables
IsTableResourceInverted(r) == r.ResourceType # TableType

\* r => r.ResourceType === 'AWS::DynamoDB::Table'
IsTableResource(r) == r.ResourceType = TableType

\* t => t.PhysicalResourceId !== null
HasPhysicalId(t) == t.PhysicalResourceId # "null"

\* .map(t => t.PhysicalResourceId)
PhysicalIdsOf(list) == [i \in 1..Len(list) |-> list[i].PhysicalResourceId]

\* entry up to the first await of listStackResources
ListEnter ==
    /\ lPc' = "list"
    /\ lRequests' = <<0>>
    /\ nextToken' = 0
    /\ tablesInStack' = <<>>
    /\ lReturned' = <<>>
    /\ lThrown' = <<>>
    /\ UNCHANGED <<stackResources, pageSize>>

ListCall ==
    /\ lPc = "idle"
    /\ ListEnter
    /\ UNCHANGED <<rVars, pVars, tVars, uVars, gVars, oVars, dVars, remote>>

\* a page arrives: the loop body, then the next request or the return
ListPageResolves ==
    /\ lPc = "list"
    /\ LET resp == ListStackResourcesResponse(lRequests[Len(lRequests)])
       IN  /\ nextToken' = resp.NextToken
           /\ tablesInStack' =
                  tablesInStack \o SelectSeq(resp.StackResourceSummaries, IsTableResource)
           /\ IF resp.NextToken # 0
              THEN /\ lRequests' = Append(lRequests, resp.NextToken)
                   /\ UNCHANGED <<lPc, lReturned>>
              ELSE /\ lPc' = "returned"
                   /\ lReturned' = <<PhysicalIdsOf(SelectSeq(tablesInStack', HasPhysicalId))>>
                   /\ UNCHANGED lRequests
    /\ UNCHANGED <<stackResources, pageSize, lThrown>>
    /\ UNCHANGED <<rVars, pVars, tVars, uVars, gVars, oVars, dVars, remote>>

\* listStackResources rejects: nothing catches it
ListPageRejects ==
    /\ lPc = "list"
    /\ lPc' = "thrown"
    /\ \E c \in GlobalErrorCodes : lThrown' = <<ProviderError(c)>>
    /\ UNCHANGED <<stackResources, pageSize, lRequests, nextToken, tablesInStack, lReturned>>
    /\ UNCHANGED <<rVars, pVars, tVars, uVars, gVars, oVars, dVars, remote>>

lInit ==
    /\ lPc = "idle"
    /\ stackResources \in SeqsUpTo(StackResourceSummaries, MaxResources)
    /\ pageSize \in 1..MaxResources
    /\ lRequests = <<>>
    /\ nextToken = 0
    /\ tablesInStack = <<>>
    /\ lReturned = <<>>
    /\ lThrown = <<>>

InitList == lInit /\ rIdle /\ pIdle /\ script = <<>> /\ tIdle /\ uIdle /\ gIdle /\ oIdle /\ dIdle /\ NoProvider

NextList == ListCall \/ ListPageResolves \/ ListPageRejects

SpecList == InitList /\ [][NextList]_vars

-----------------------------------------------------------------------------
(* deleteGlobalAndBackupTables and the two functions it calls (src/index.js) *)

\* option.regions of one entry of custom.globalTables
RemovalRegionOrder == <<"us-west-1", "us-west-2", "us-east-1">>
RemovalRegionLists ==
    {SubSeq(RemovalRegionOrder, 1, k) :
        k \in 0..Min(MaxTableRegions, Len(RemovalRegionOrder))}

\* how an entry names its table: option.tableKey, option.tableName, or neither
OptionKinds == {"tableKey", "tableName", "neither"}

RemovalOption(kind, table, regions) ==
    [kind |-> kind, table |-> table, regions |-> regions]

\* custom.globalTables: a list of entries (the empty list stands for an absent
\* setting too: both return at once)
RemovalOptionLists ==
    UNION {{[i \in 1..k |-> RemovalOption(f[i].kind, AllTableNames[i], f[i].regions)] :
               f \in [1..k -> [kind : OptionKinds, regions : RemovalRegionLists]]} :
           k \in 0..MaxTables}

\* what deleteTable rejects with
DeleteErrorCodes == {"ResourceNotFoundException", "RandomError"}

\* the error thrown for an entry with neither tableKey nor tableName
RemovalError == [name |-> "Error", code |-> "undefined"]

\* mutant: the catch block rethrows whatever the code is
DeleteCatchRethrowsAll(code) == "failed"

\* the catch block of deleteBackupRegionGlobalTable: skip or rethrow
DeleteCatch(code) ==
    IF code = "ResourceNotFoundException" THEN "skipped" ELSE "failed"

\* the callback of globalTablesOptions.map for one entry: the deleteTable
\* calls deleteBackupRegionGlobalTables issues, one per region in order
DeleteCallsOf(option) ==
    IF option.kind = "tableName"
    THEN [i \in 1..Len(option.regions) |->
             [table |-> option.table, region |-> option.regions[i]]]
    ELSE <<>>

\* globalTablesOptions.map from entry i on: the calls issued, and whether the
\* callback threw (which ends the map)
RECURSIVE MapOptions(_, _)
MapOptions(options, i) ==
    IF i > Len(options)
    THEN [calls |-> <<>>, threw |-> FALSE]
    ELSE IF options[i].kind = "neither"
         THEN [calls |-> <<>>, threw |-> TRUE]
         ELSE LET rest == MapOptions(options, i + 1)
              IN  [calls |-> DeleteCallsOf(options[i]) \o rest.calls,
                   threw |-> rest.threw]

\* the function is called: up to the await of Promise.all, or to its return
RemoveCall ==
    /\ dPc = "idle"
    /\ IF Len(dOptions) = 0
       THEN /\ dPc' = "done"
            /\ UNCHANGED <<dCalls, dTasks, dCaught>>
       ELSE LET m == MapOptions(dOptions, 1)
            IN  /\ dCalls' = m.calls
                /\ dTasks' = [i \in 1..Len(m.calls) |-> [state |-> "pending", code |-> "none"]]
                /\ dPc' = IF m.threw \/ Len(m.calls) = 0 THEN "done" ELSE "deleting"
                /\ dCaught' = IF m.threw THEN <<RemovalError>> ELSE <<>>
    /\ UNCHANGED dOptions
    /\ UNCHANGED <<rVars, pVars, tVars, uVars, gVars, oVars, lVars, remote>>

\* deleteTable number i settles; Promise.all rejects on the first rethrown
\* error and resolves when every deleteBackupRegionGlobalTable has resolved
DeleteSettle(i, state, code) ==
    /\ dPc # "idle"
    /\ dTasks[i].state = "pending"
    /\ dTasks' = [dTasks EXCEPT ![i] = [state |-> state, code |-> code]]
    /\ IF dPc = "deleting" /\ state = "failed"
       THEN dPc' = "done" /\ dCaught' = <<ProviderError(code)>>
       ELSE IF dPc = "deleting" /\ \A j \in 1..Len(dTasks) : dTasks'[j].state # "pending"
            THEN dPc' = "done" /\ UNCHANGED dCaught
            ELSE UNCHANGED <<dPc, dCaught>>
    /\ UNCHANGED <<dOptions, dCalls>>
    /\ UNCHANGED <<rVars, pVars, tVars, uVars, gVars, oVars, lVars, remote>>

DeleteTableResolves ==
    \E i \in 1..Len(dTasks) : DeleteSettle(i, "deleted", "none")

DeleteTableRejects ==
    \E i \in 1..Len(dTasks), code \in DeleteErrorCodes :
        DeleteSettle(i, DeleteCatch(code), code)

dInit ==
    /\ dPc = "idle"
    /\ dOptions \in RemovalOptionLists
    /\ dCalls = <<>>
    /\ dTasks = <<>>
    /\ dCaught = <<>>

InitRemove == dInit /\ rIdle /\ pIdle /\ script = <<>> /\ tIdle /\ uIdle /\ gIdle /\ oIdle /\ lIdle /\ NoProvider

NextRemove == RemoveCall \/ DeleteTableResolves \/ DeleteTableRejects

SpecRemove == InitRemove /\ [][NextRemove]_vars

-----------------------------------------------------------------------------
(* createGlobalTable run against the provider's replication topology: the
   lookup answers from it, and a linkage call that resolves has been applied
   to it *)

\* the topologies the provider starts with: none, or the regions it lists
Remotes ==
    {NoRemote}
        \cup {[exists |-> TRUE, regions |-> l] :
                l \in {s \in SeqsUpTo(Regions, MaxTableReplicas) :
                          \A i, j \in 1..Len(s) : s[i] = s[j] => i = j}}

\* what the lookup of the version resolves or rejects with for a topology:
\* describeTable reports Replicas, describeGlobalTable the ReplicationGroup or
\* GlobalTableNotFoundException
ProviderLookup(version, t) ==
    IF t.exists
    THEN LookupResolved(TRUE, [i \in 1..Len(t.regions) |-> Replica(t.regions[i])])
    ELSE IF version = "v2"
         THEN LookupResolved(FALSE, <<>>)
         ELSE LookupRejected(ProviderError(NotFoundCode))

\* the topology after the provider has applied a linkage call: createGlobalTable
\* sets the ReplicationGroup, updateGlobalTable and updateTable add the regions
\* of their Create entries
Applied(t, call) ==
    IF call.op = "createGlobalTable"
    THEN [exists |-> TRUE, regions |-> call.regions]
    ELSE [exists |-> TRUE, regions |-> t.regions \o call.regions]

\* the lookup settles with what the provider holds
RemoteLookupResolves ==
    /\ gPc = "resolve"
    /\ ResolveSettle(ProviderLookup(rArgs.version, remote))

\* the lookup rejects with another error
RemoteLookupRejects ==
    /\ gPc = "resolve"
    /\ \E c \in GlobalErrorCodes : ResolveSettle(LookupRejected(ProviderError(c)))

\* createGlobalTable / updateGlobalTable resolved: the provider has applied it
LinkApplied ==
    /\ gPc \in {"createGlobalTable", "updateGlobalTable"}
    /\ GtReturn
    /\ remote' = Applied(remote, gCalls[Len(gCalls)])
    /\ UNCHANGED <<gCreateStack, gParams, gTableDef, gTasks, gIdx>>
    /\ UNCHANGED <<rVars, pVars, tVars, uVars, oVars, lVars, dVars>>

\* updateTable resolved: the provider has applied it
ReplicaApplied ==
    /\ gPc = "updateTable"
    /\ GtIssue("waitAfter", GlobalCall("waitFor", <<>>))
    /\ remote' = Applied(remote, gCalls[Len(gCalls)])
    /\ UNCHANGED <<gCreateStack, gParams, gTableDef, gTasks, gIdx>>
    /\ UNCHANGED <<rVars, pVars, tVars, uVars, oVars, lVars, dVars>>

\* createGlobalTable is called again with the same arguments after it returned
GtRecall ==
    /\ gPc = "returned"
    /\ Len(rCalls) < MaxCalls
    /\ GtEnter(gCreateStack)
    /\ UNCHANGED <<pVars, tVars, uVars, oVars, lVars, dVars, remote>>

InitReconcile ==
    /\ gInit
    /\ remote \in Remotes
    /\ pIdle /\ script = <<>> /\ tIdle /\ uIdle /\ oIdle /\ lIdle /\ dIdle

NextReconcile ==
    \/ GtCall
    \/ GtRecall
    \/ RemoteLookupResolves
    \/ RemoteLookupRejects
    \/ GtResolverReturned
    \/ GtResolverThrew
    \/ DescribeTableResolves
    \/ ListTagsResolves
    \/ DescribeScalingPoliciesResolves
    \/ TaskResolves
    \/ TaskRejects
    \/ LinkApplied
    \/ WaitBeforeResolves
    \/ ReplicaApplied
    \/ WaitAfterResolves
    \/ GtCallRejects

SpecReconcile == InitReconcile /\ [][NextReconcile]_vars

-----------------------------------------------------------------------------
(* One call of createGlobalTable while another actor changes the topology the
   provider holds *)

\* another actor creates, replaces or deletes the replication topology after
\* the lookup has been answered from it and while the call is under way
OtherActorChanges ==
    /\ gPc \notin {"idle", "returned", "thrown"}
    /\ rResp = <<ProviderLookup(rArgs.version, remote)>>
    /\ remote' \in Remotes \ {remote}
    /\ UNCHANGED <<rVars, pVars, tVars, uVars, gVars, oVars, lVars, dVars>>

InitContended == InitReconcile

NextContended ==
    \/ GtCall
    \/ RemoteLookupResolves
    \/ RemoteLookupRejects
    \/ GtResolverReturned
    \/ GtResolverThrew
    \/ DescribeTableResolves
    \/ ListTagsResolves
    \/ DescribeScalingPoliciesResolves
    \/ TaskResolves
    \/ TaskRejects
    \/ LinkApplied
    \/ WaitBeforeResolves
    \/ ReplicaApplied
    \/ WaitAfterResolves
    \/ GtCallRejects
    \/ OtherActorChanges

SpecContended == InitContended /\ [][NextContended]_vars

-----------------------------------------------------------------------------
(* Properties of getRegionsToCreateGlobalTablesIn, checked under SpecResolve *)

\* the call has settled
rSettled == rPc \in {"returned", "thrown"}

\* the lookup of the settled call
rLookup == rResp[1]

\* the lookup rejected with the not-found code / with another error
LookupNotFound == rSettled /\ ~rLookup.ok /\ rLookup.error.code = "GlobalTableNotFoundException"
LookupOtherError == rSettled /\ ~rLookup.ok /\ rLookup.error.code # "GlobalTableNotFoundException"

\* the lookup resolved and reported a topology (variant (b) reads a descriptor
\* without Replicas as the empty topology)
LookupFound == rSettled /\ rLookup.ok /\ (rLookup.hasList \/ rArgs.version = "v2")

\* the set of regions the lookup reported
Topology == {rLookup.list[i].RegionName : i \in 1..Len(rLookup.list)}

\* the requested regions, as a set
Requested == {rArgs.newRegions[i] : i \in 1..Len(rArgs.newRegions)}

\* the in-order entries of a list that the topology lacks
Uncovered(list) ==
    LET Missing(r) == r \notin Topology
    IN  SelectSeq(list, Missing)

\* the list variant (a) / variant (b) diffs
VariantCandidates ==
    IF rArgs.version = "v2" THEN rArgs.newRegions ELSE <<rArgs.region>> \o rArgs.newRegions

rResultIs(missing, adding) ==
    /\ rPc = "returned"
    /\ rThrown = <<>>
    /\ rReturned = <<[missingRegions |-> missing, addingNewRegions |-> adding]>>

\* C1: when the lookup fails with GlobalTableNotFoundException the call returns
\* missingRegions = the requested list unchanged (source region not added) and
\* addingNewRegions = false, whatever the version.
C1_NotFoundReturnsRequested ==
    LookupNotFound => rResultIs(rArgs.newRegions, FALSE)

C1_Witness ==
    /\ LookupNotFound
    /\ rArgs.version = "v2"
    /\ rPc = "returned"
    /\ Len(rArgs.newRegions) = 2
    /\ rArgs.region \notin Requested

\* C2: when the lookup fails with any other error, that same error is the
\* rejection of the call: nothing is returned, and the lookup is the only
\* provider call that was made (no retry, no other call).
C2_OtherErrorPropagates ==
    LookupOtherError =>
        /\ rPc = "thrown"
        /\ rThrown = <<rLookup.error>>
        /\ rReturned = <<>>
        /\ rCalls = <<IF rArgs.version = "v2" THEN "describeTable" ELSE "describeGlobalTable">>

C2_Witness ==
    /\ LookupOtherError
    /\ rPc = "thrown"
    /\ rLookup.error.code = "RandomError"
    /\ rArgs.version = "v1"

\* C3: after a successful lookup, missingRegions is the in-order sub-sequence
\* of the candidate list that the topology lacks; the candidate list is
\* newRegions for 'v2' and [region] followed by newRegions for any other version.
C3_MissingIsUncoveredCandidates ==
    LookupFound =>
        /\ rPc = "returned"
        /\ rReturned[1].missingRegions = Uncovered(VariantCandidates)

C3_Witness ==
    /\ LookupFound
    /\ rPc = "returned"
    /\ rArgs.version # "v2"
    /\ rArgs.region \notin Topology
    /\ Len(rReturned[1].missingRegions) = 2
    /\ Len(rArgs.newRegions) = 2

\* C4 (as claimed): in every returned result addingNewRegions is true iff a
\* topology existed, was non-empty, and missingRegions is non-empty.
C4_AddingIffNonEmptyTopology ==
    rPc = "returned" =>
        (rReturned[1].addingNewRegions
            <=> (rLookup.ok /\ Topology # {} /\ Len(rReturned[1].missingRegions) > 0))

\* the requested list is partially / fully contained in a non-empty topology
PartiallyContained ==
    /\ LookupFound
    /\ Topology # {}
    /\ Requested \cap Topology # {}
    /\ Requested \ Topology # {}

FullyContained ==
    /\ LookupFound
    /\ Topology # {}
    /\ Requested \subseteq Topology

\* C5 (as claimed): a partially contained requested list yields exactly the
\* requested entries the topology lacks, in order, and addingNewRegions = true,
\* in both variants.
C5_PartialReturnsRequestedOnly ==
    PartiallyContained => rResultIs(Uncovered(rArgs.newRegions), TRUE)

\* C5 (amended): a partially contained requested list yields the entries of
\* the variant's candidate list that the topology lacks, in order (so for a
\* version other than 'v2' the source region comes first when the topology
\* lacks it), and addingNewRegions = true.
C5_PartialReturnsUncoveredCandidates ==
    PartiallyContained => rResultIs(Uncovered(VariantCandidates), TRUE)

C5_Witness ==
    /\ PartiallyContained
    /\ rPc = "returned"
    /\ rArgs.version # "v2"
    /\ rArgs.region \notin Topology
    /\ rArgs.region \notin Requested
    /\ rReturned[1].missingRegions[1] = rArgs.region

\* C6 (as claimed): a requested list fully contained in a non-empty topology
\* yields missingRegions = [] and addingNewRegions = false, in both variants,
\* whether or not the topology contains the source region.
C6_FullReturnsNothing ==
    FullyContained => rResultIs(<<>>, FALSE)

\* C6 (amended): a requested list fully contained in a non-empty topology
\* yields [] and false for 'v2', and for any other version when the topology
\* also contains the source region; for a version other than 'v2' and a
\* topology without the source region it yields [region] and true.
C6_FullReturnsNothingOrSource ==
    FullyContained =>
        IF rArgs.version = "v2" \/ rArgs.region \in Topology
        THEN rResultIs(<<>>, FALSE)
        ELSE rResultIs(<<rArgs.region>>, TRUE)

C6_Witness ==
    /\ FullyContained
    /\ rPc = "returned"
    /\ rArgs.version = "v1"
    /\ rArgs.region \in Topology
    /\ Len(rArgs.newRegions) = 1
    /\ rReturned[1].missingRegions = <<>>

\* the topology is empty: not found, or found with no replica region
EmptyTopology == LookupNotFound \/ (LookupFound /\ Topology = {})

\* C7 (as claimed): for a non-empty requested list and an empty topology the
\* call returns missingRegions = the requested list and addingNewRegions = false.
C7_EmptyTopologyReturnsRequested ==
    (EmptyTopology /\ Len(rArgs.newRegions) > 0) => rResultIs(rArgs.newRegions, FALSE)

-----------------------------------------------------------------------------
(* Properties of checkStackCreateUpdateStatus, checked under SpecPoll *)

SuccessFamily == {"CREATE_COMPLETE", "UPDATE_COMPLETE"}
FailureFamily == {"ROLLBACK_COMPLETE", "ROLLBACK_FAILED",
                  "UPDATE_ROLLBACK_COMPLETE", "UPDATE_ROLLBACK_FAILED"}
TerminalStatuses == SuccessFamily \cup FailureFamily

\* the i-th answer is a terminal status / a status that is not terminal
TerminalAt(i) == script[i].ok /\ script[i].StackStatus \in TerminalStatuses
InProgressAt(i) == script[i].ok /\ script[i].StackStatus \notin TerminalStatuses

\* the script position that answers the n-th query (a settled stack repeats)
Nth(n) == IF n < Len(script) THEN n ELSE Len(script)

\* the position of the first terminal answer that no rejection precedes, 0 if none
FirstTerminal ==
    LET hits == {i \in 1..Len(script) :
                    TerminalAt(i) /\ \A j \in 1..(i - 1) : InProgressAt(j)}
    IN  IF hits = {} THEN 0 ELSE CHOOSE i \in hits : TRUE

\* C8: the poll returns true iff the first terminal status it observes is
\* CREATE_COMPLETE or UPDATE_COMPLETE and false iff it is one of the four
\* rollback statuses; a rollback status is returned as false, never thrown, and
\* the statuses observed before it do not matter.
C8_ResultIsFamilyOfFirstTerminal ==
    /\ pPc = "returned" =>
          /\ FirstTerminal # 0
          /\ pReturned \in {<<TRUE>>, <<FALSE>>}
          /\ pReturned = <<TRUE>> <=> script[FirstTerminal].StackStatus \in SuccessFamily
          /\ pReturned = <<FALSE>> <=> script[FirstTerminal].StackStatus \in FailureFamily
    /\ pPc = "thrown" => (FirstTerminal = 0 /\ pReturned = <<>>)

C8_Witness ==
    /\ pPc = "returned"
    /\ pReturned = <<FALSE>>
    /\ FirstTerminal = 2
    /\ script[1].StackStatus = "CREATE_IN_PROGRESS"
    /\ script[2].StackStatus = "ROLLBACK_COMPLETE"

\* the three states of the poll
PollState ==
    IF pPc = "returned"
    THEN IF pReturned = <<TRUE>> THEN "SUCCESS" ELSE "FAILED"
    ELSE "IN_PROGRESS"

\* the counters are exact below their cap
Exact(n) == n < CountCap

\* C9: the poll starts IN_PROGRESS; after each non-terminal answer it stays
\* IN_PROGRESS and sleeps once before the next query; on the first terminal
\* answer it is SUCCESS or FAILED at once and queries and sleeps no more: k
\* non-terminal answers followed by a terminal one give k+1 queries, k sleeps.
C9_QueriesAndSleeps ==
    /\ [](/\ pPc = "idle" => (queries = 0 /\ sleeps = 0)
          /\ pPc \in {"idle", "query", "sleep"} => PollState = "IN_PROGRESS"
          /\ (pPc = "query" /\ Exact(queries)) =>
                (sleeps = queries - 1 /\ \A i \in 1..(queries - 1) : InProgressAt(Nth(i)))
          /\ (pPc = "sleep" /\ Exact(queries)) =>
                (sleeps = queries /\ \A i \in 1..queries : InProgressAt(Nth(i)))
          /\ pPc = "returned" =>
                /\ PollState \in {"SUCCESS", "FAILED"}
                /\ FirstTerminal # 0
                /\ queries = FirstTerminal
                /\ sleeps = FirstTerminal - 1)
    /\ [][/\ (pPc = "query" /\ InProgressAt(Nth(queries))) =>
                (pPc' = "sleep" /\ queries' = queries
                    /\ (Exact(sleeps) => sleeps' = sleeps + 1))
          /\ (pPc = "query" /\ TerminalAt(Nth(queries))) =>
                (pPc' = "returned" /\ queries' = queries /\ sleeps' = sleeps)
          /\ pPc = "sleep" =>
                (pPc' = "query" /\ sleeps' = sleeps
                    /\ (Exact(queries) => queries' = queries + 1))
          /\ pPc \in {"returned", "thrown"} =>
                (pPc' = pPc /\ queries' = queries /\ sleeps' = sleeps)]_vars

C9_Witness ==
    /\ pPc = "returned"
    /\ pReturned = <<TRUE>>
    /\ Len(script) = 3
    /\ script[1].StackStatus = "CREATE_IN_PROGRESS"
    /\ script[2].StackStatus = "CREATE_IN_PROGRESS"
    /\ script[3].StackStatus = "CREATE_COMPLETE"
    /\ queries = 3
    /\ sleeps = 2

\* no answer of the script is ever a terminal status
NeverTerminal == \A i \in 1..Len(script) : ~TerminalAt(i)

\* C10: the poll has no iteration bound.  It returns only on an answer that is
\* one of the six listed statuses; every other status (CREATE_FAILED,
\* DELETE_COMPLETE, DELETE_FAILED included) sends it to sleep and to the next
\* query, so with no terminal answer it never returns; and when a terminal
\* answer comes and every query and sleep completes, it eventually returns.
C10_ReturnsIffTerminalComes ==
    /\ [](pPc = "returned" =>
            (status \in TerminalStatuses /\ script[Nth(queries)] = StacksResolved(status)))
    /\ [](NeverTerminal => pPc # "returned")
    /\ [][(pPc = "query" /\ script[Nth(queries)].ok
              /\ script[Nth(queries)].StackStatus \notin TerminalStatuses)
            => pPc' = "sleep"]_vars
    /\ ((pPc # "idle" /\ FirstTerminal # 0) ~> pPc = "returned")

C10_Witness ==
    /\ script = <<StacksResolved("CREATE_FAILED")>>
    /\ pPc = "sleep"
    /\ queries > Len(script) + 1
    /\ pReturned = <<>>

-----------------------------------------------------------------------------
(* Properties of createNewTableAndSetScalingPolicy, checked under SpecTable *)

\* createTable has settled, with this outcome
CreateTableOutcome == IF Len(tResps) = 0 THEN "pending" ELSE tResps[1]

\* no provider call of the function has rejected
NoTableCallRejected == \A i \in 1..Len(tResps) : tResps[i] = "ok"

\* the scaling calls are the calls after createTable
ScalingCalls == SubSeq(tCalls, 2, Len(tCalls))

HasPolicyNamed(n) ==
    \E i \in 1..Len(tArgs.scalingPolicies) : tArgs.scalingPolicies[i].PolicyName = n

\* one registerScalableTarget followed by one putScalingPolicy for a dimension
ScalingPair(d) ==
    <<[op |-> "registerScalableTarget", dimension |-> d],
      [op |-> "putScalingPolicy", dimension |-> d]>>

\* write before read, each only when the source table has that policy
ExpectedScalingCalls ==
    (IF HasPolicyNamed("WriteAutoScalingPolicy")
     THEN ScalingPair("dynamodb:table:WriteCapacityUnits") ELSE <<>>)
    \o (IF HasPolicyNamed("ReadAutoScalingPolicy")
        THEN ScalingPair("dynamodb:table:ReadCapacityUnits") ELSE <<>>)

IsPrefix(s, t) == Len(s) <= Len(t) /\ s = SubSeq(t, 1, Len(s))

\* C19: when createTable fails with ResourceInUseException the call completes
\* normally, and with any other error it rejects with that error; in both
\* cases no scalable target is registered and no scaling policy is put.
C19_CreateTableFailureMakesNoScalingCall ==
    CreateTableOutcome \notin {"pending", "ok"} =>
        /\ ScalingCalls = <<>>
        /\ Len(tCalls) = 1
        /\ IF CreateTableOutcome = "ResourceInUseException"
           THEN tPc = "returned" /\ tThrown = <<>>
           ELSE tPc = "thrown" /\ tThrown = <<[name |-> "Error", code |-> CreateTableOutcome]>>

C19_Witness ==
    /\ CreateTableOutcome = "ResourceInUseException"
    /\ tPc = "returned"
    /\ HasPolicyNamed("WriteAutoScalingPolicy")
    /\ HasPolicyNamed("ReadAutoScalingPolicy")
    /\ tArgs.hasThroughput

\* C20 (as claimed): after a successful createTable, and with no scaling call
\* rejecting, the scaling calls are one registerScalableTarget followed by one
\* putScalingPolicy for each of the write and read policies of the source
\* table, write before read, all after createTable; none without such a policy.
C20_ScalingCallsPerPolicy ==
    (CreateTableOutcome = "ok" /\ NoTableCallRejected) =>
        /\ tCalls[1].op = "createTable"
        /\ IsPrefix(ScalingCalls, ExpectedScalingCalls)
        /\ tPc \in {"returned", "thrown"} =>
              (tPc = "returned" /\ ScalingCalls = ExpectedScalingCalls)

\* the same, for create-table parameters that carry ProvisionedThroughput
C20_ScalingCallsPerPolicyWithThroughput ==
    tArgs.hasThroughput => C20_ScalingCallsPerPolicy

-----------------------------------------------------------------------------
(* Properties of createUpdateCfnStack, checked under SpecCfn *)

\* how many times the function has called op
CfnCount(op) == Cardinality({i \in 1..Len(uCalls) : uCalls[i] = op})

\* how the i-th call of the function settled
CfnOutcome(i) == IF Len(uResps) < i THEN "pending" ELSE uResps[i]

CreateStackOutcome == CfnOutcome(1)

\* updateStack, when called, is the second call
UpdateStackOutcome ==
    IF Len(uCalls) >= 2 /\ uCalls[2] = "updateStack" THEN CfnOutcome(2) ELSE "none"

\* C17: createStack is called exactly once; updateStack is called (once) just
\* when createStack failed with AlreadyExistsException; the status check is
\* called at most once, exactly once when the function returns, and only
\* after the create/update call before it has settled without propagating.
C17_CreateOnceUpdateIffExistsCheckOnce ==
    uPc # "idle" =>
        /\ CfnCount("createStack") = 1
        /\ uCalls[1] = "createStack"
        /\ CfnCount("updateStack") = (IF CreateStackOutcome = "AlreadyExistsException" THEN 1 ELSE 0)
        /\ CfnCount("checkStackCreateUpdateStatus") <= 1
        /\ uPc = "returned" => CfnCount("checkStackCreateUpdateStatus") = 1
        /\ \A i \in 1..Len(uCalls) :
              uCalls[i] = "checkStackCreateUpdateStatus" =>
                 /\ i = Len(uCalls)
                 /\ i > 1
                 /\ CfnOutcome(i - 1) \in {"ok", "ValidationError"}
                 /\ uCalls[i - 1] = "createStack" => CfnOutcome(i - 1) = "ok"

C17_Witness ==
    /\ uPc = "returned"
    /\ uCalls = <<"createStack", "updateStack", "checkStackCreateUpdateStatus">>
    /\ uResps = <<"AlreadyExistsException", "ok", "true">>
    /\ sleeps > 0

\* C18: a createStack error other than AlreadyExistsException propagates with
\* neither updateStack nor the status check called; an updateStack
\* ValidationError is swallowed and the status check is performed once; any
\* other updateStack error propagates without the status check.
C18_ErrorOutcomes ==
    /\ CreateStackOutcome \notin {"pending", "ok", "AlreadyExistsException"} =>
          /\ uPc = "thrown"
          /\ uThrown = <<[name |-> "Error", code |-> CreateStackOutcome]>>
          /\ uCalls = <<"createStack">>
    /\ UpdateStackOutcome = "ValidationError" =>
          /\ uCalls = <<"createStack", "updateStack", "checkStackCreateUpdateStatus">>
          /\ uPc \in {"check", "returned", "thrown"}
          /\ uPc = "thrown" => (pPc = "thrown" /\ uThrown = pThrown)
    /\ UpdateStackOutcome \notin {"none", "pending", "ok", "ValidationError"} =>
          /\ uPc = "thrown"
          /\ uThrown = <<[name |-> "Error", code |-> UpdateStackOutcome]>>
          /\ uCalls = <<"createStack", "updateStack">>

C18_Witness ==
    /\ UpdateStackOutcome = "ValidationError"
    /\ uPc = "returned"
    /\ uResps[3] = "false"

-----------------------------------------------------------------------------
(* Properties of createGlobalTable, checked under SpecGlobalTable *)

\* the resolver has reported to createGlobalTable
ResolverReported == gPc # "idle" /\ rPc = "returned"

MissingRegions == rReturned[1].missingRegions

IsLinkCall(c) == c.op \in {"createGlobalTable", "updateGlobalTable", "updateTable"}

\* the linkage calls createGlobalTable has issued, in order
LinkCalls == SelectSeq(gCalls, IsLinkCall)

\* C11: when the resolver reports an empty missingRegions, createGlobalTable
\* issues no provider call after the lookup (no describeTable of the source
\* table, no tag or scaling-policy read, no linkage call), starts no replica
\* table creation, and returns normally.
C11_NothingMissingSkipsAllWork ==
    (ResolverReported /\ Len(MissingRegions) = 0) =>
        /\ gCalls = <<>>
        /\ gTasks = <<>>
        /\ gParams = <<>>
        /\ Len(rCalls) = 1
        /\ gPc \in {"resolve", "returned"}
        /\ gThrown = <<>>

C11_Witness ==
    /\ ResolverReported
    /\ Len(MissingRegions) = 0
    /\ gPc = "returned"
    /\ ~gCreateStack
    /\ rArgs.version = "v1"
    /\ Len(rArgs.newRegions) = 2

\* C12: with a version other than 'v2' and a non-empty missingRegions there is
\* never more than one linkage call, and exactly one once the tables exist
\* (createStack, or every per-region creation resolved) and when the call
\* returns; it is createGlobalTable with ReplicationGroup = the source region
\* followed by missingRegions when addingNewRegions is false, and
\* updateGlobalTable with one Create entry per missing region otherwise.
C12_OneLinkCallOfTheRightKind ==
    (ResolverReported /\ rArgs.version # "v2" /\ Len(MissingRegions) > 0) =>
        /\ Len(LinkCalls) <= 1
        /\ gPc = "returned" => Len(LinkCalls) = 1
        /\ (gPc # "resolve" /\ gCreateStack) => Len(LinkCalls) = 1
        /\ (gTasks # <<>> /\ \A i \in 1..Len(gTasks) : gTasks[i].state = "resolved")
              => Len(LinkCalls) = 1
        /\ \A i \in 1..Len(LinkCalls) :
              LinkCalls[i] =
                 IF rReturned[1].addingNewRegions
                 THEN [op |-> "updateGlobalTable", regions |-> MissingRegions]
                 ELSE [op |-> "createGlobalTable",
                       regions |-> <<rArgs.region>> \o MissingRegions]

C12_Witness ==
    /\ ResolverReported
    /\ rArgs.version = "undefined"
    /\ ~rReturned[1].addingNewRegions
    /\ Len(MissingRegions) = 2
    /\ ~gCreateStack
    /\ gPc = "returned"
    /\ Len(LinkCalls) = 1

-----------------------------------------------------------------------------
(* Properties of createGlobalDynamodbTable, checked under SpecOrch *)

ListTablesCall == [op |-> "getTableNamesFromStack", arg |-> "none", createStack |-> "none"]

ListedRegions == IF config.regions = <<>> THEN <<>> ELSE config.regions[1]

\* one createUpdateCfnStack per configured region, in configured order
DeployCalls ==
    [i \in 1..Len(ListedRegions) |->
        [op |-> "createUpdateCfnStack", arg |-> ListedRegions[i], createStack |-> "none"]]

\* one createGlobalTable per table of the stack, in listing order
TableCalls(createStack) ==
    [i \in 1..Len(stackTables) |->
        [op |-> "createGlobalTable", arg |-> stackTables[i], createStack |-> createStack]]

\* the function has returned and its catch block has logged nothing
CompletedWithoutError == oPc = "done" /\ oCaught = <<>>

NoDeployment == uPc = "idle" /\ uCalls = <<>> /\ queries = 0
NoLinkage == gPc = "idle" /\ rCalls = <<>> /\ gCalls = <<>>

\* a configuration object that lists regions
ListsRegions == config.present /\ config.regions # <<>>

\* the helper calls are: list the tables, deploy region by region, then link
\* table by table; a deployment is over before the next call is made
DeploysThenLinks ==
    /\ IsPrefix(oCalls, <<ListTablesCall>> \o DeployCalls \o TableCalls("true"))
    /\ CompletedWithoutError =>
          oCalls = <<ListTablesCall>> \o DeployCalls \o TableCalls("true")
    /\ oPc = "cfn" => Len(oCalls) = 1 + oIdx
    /\ (oPc = "table" /\ Len(ListedRegions) > 0) =>
          (uPc = "returned" /\ pPc = "returned")
    /\ (oPc = "table" /\ Len(ListedRegions) = 0) => NoDeployment

\* C13 (as claimed): with a configuration whose createStack is not false and at
\* least one table in the stack, the stack is deployed once per configured
\* region, in order and one at a time, all before the first createGlobalTable,
\* which is then called once per table.
C13_DeployPerRegionThenLinkPerTable ==
    (ListsRegions /\ config.createStack # "false" /\ Len(stackTables) > 0)
        => DeploysThenLinks

\* the same, for configurations that also set `enabled`
C13_DeployPerRegionThenLinkPerTableWhenEnabled ==
    (ListsRegions /\ config.enabled = "true"
        /\ config.createStack # "false" /\ Len(stackTables) > 0)
        => DeploysThenLinks

\* the tables are listed once, nothing is deployed, and createGlobalTable is
\* called once per table with createStack = false
ListsThenLinksOnly ==
    /\ IsPrefix(oCalls, <<ListTablesCall>> \o TableCalls("false"))
    /\ CompletedWithoutError => oCalls = <<ListTablesCall>> \o TableCalls("false")
    /\ NoDeployment
    /\ gPc # "idle" => ~gCreateStack

\* C14 (as claimed): with a configuration of regions and createStack: false and
\* nothing else, and at least one table in the stack, the tables are listed
\* once, no stack is deployed, and createGlobalTable is called once per table
\* with createStack = false.
C14_NoDeploymentWhenCreateStackFalse ==
    (ListsRegions /\ config.createStack = "false" /\ config.enabled = "undefined"
        /\ config.version = "undefined" /\ Len(stackTables) > 0)
        => ListsThenLinksOnly

\* the same, for configurations that also set `enabled`
C14_NoDeploymentWhenCreateStackFalseAndEnabled ==
    (ListsRegions /\ config.createStack = "false" /\ config.enabled = "true"
        /\ Len(stackTables) > 0)
        => ListsThenLinksOnly

\* C15: when the configuration is missing or an empty object, the function
\* returns without any call: the tables are not listed, no stack is deployed,
\* createGlobalTable is not called, and nothing is caught.
C15_NoConfigurationNoCall ==
    (~config.present
        \/ (config.enabled = "undefined" /\ config.createStack = "undefined"
              /\ config.regions = <<>> /\ config.version = "undefined")) =>
        /\ oCalls = <<>>
        /\ NoDeployment
        /\ NoLinkage
        /\ oPc \in {"idle", "done"}
        /\ oCaught = <<>>

C15_Witness ==
    /\ config.present
    /\ config.regions = <<>>
    /\ oPc = "done"
    /\ Len(stackTables) = 2

\* the tables are listed once and nothing else is done
ListsAndStops ==
    /\ IsPrefix(oCalls, <<ListTablesCall>>)
    /\ CompletedWithoutError => oCalls = <<ListTablesCall>>
    /\ NoDeployment
    /\ NoLinkage

\* C16 (as claimed): when the configuration lists regions but the stack has no
\* DynamoDB table, the tables are listed once and the function stops: no stack
\* is deployed and createGlobalTable is never called.
C16_NoTableListsOnceAndStops ==
    (ListsRegions /\ Len(stackTables) = 0) => ListsAndStops

\* the same, for configurations that also set `enabled`
C16_NoTableListsOnceAndStopsWhenEnabled ==
    (ListsRegions /\ config.enabled = "true" /\ Len(stackTables) = 0) => ListsAndStops

-----------------------------------------------------------------------------
(* Further properties of createGlobalTable, checked under SpecGlobalTable *)

\* wait, updateTable with a single replica Create, wait: once per missing
\* region, in order
ReplicaCalls ==
    [i \in 1..(3 * Len(MissingRegions)) |->
        IF i % 3 = 2
        THEN [op |-> "updateTable", regions |-> <<MissingRegions[(i + 1) \div 3]>>]
        ELSE [op |-> "waitFor", regions |-> <<>>]]

\* C21: with version 'v2' and a non-empty missingRegions, createGlobalTable
\* starts no replica table creation and calls neither createGlobalTable nor
\* updateGlobalTable; its calls are, per missing region in order, waitFor,
\* updateTable with that region alone, waitFor; the call awaited is always
\* the last one issued, so a region starts only when the second wait of the
\* region before it has completed; on return each region has had one
\* updateTable and two waitFor.
C21_ReplicaPerRegionBetweenWaits ==
    (ResolverReported /\ rArgs.version = "v2" /\ Len(MissingRegions) > 0) =>
        /\ gTasks = <<>>
        /\ gParams = <<>>
        /\ IsPrefix(gCalls, ReplicaCalls)
        /\ gPc = "returned" => gCalls = ReplicaCalls
        /\ gPc = "waitBefore" => Len(gCalls) = 3 * (gIdx - 1) + 1
        /\ gPc = "updateTable" => Len(gCalls) = 3 * (gIdx - 1) + 2
        /\ gPc = "waitAfter" => Len(gCalls) = 3 * gIdx
        /\ gPc \in {"resolve", "waitBefore", "updateTable", "waitAfter", "returned", "thrown"}

C21_Witness ==
    /\ ResolverReported
    /\ rArgs.version = "v2"
    /\ Len(MissingRegions) = 2
    /\ ~gCreateStack
    /\ gPc = "returned"
    /\ Len(gCalls) = 6

-----------------------------------------------------------------------------
(* Properties of getTableNamesFromStack, checked under SpecList *)

IsTableWithId(r) ==
    r.ResourceType = "AWS::DynamoDB::Table" /\ r.PhysicalResourceId # "null"

\* the ids of the table resources of the whole stack, nulls left out
TableIdsOfStack ==
    LET tables == SelectSeq(stackResources, IsTableWithId)
    IN  [i \in 1..Len(tables) |-> tables[i].PhysicalResourceId]

\* pages the stack's resources are listed in
PagesOfStack ==
    IF Len(stackResources) = 0
    THEN 1
    ELSE (Len(stackResources) + pageSize - 1) \div pageSize

\* C22: getTableNamesFromStack returns the non-null physical resource ids of
\* the resources of type AWS::DynamoDB::Table of all pages, in listing order;
\* the first request carries no NextToken, each further one the NextToken of
\* the response before it, and the function returns at the first response
\* without one, having requested every page once.
C22_TablesOfAllPagesInOrder ==
    /\ lPc = "returned" =>
          /\ lReturned = <<TableIdsOfStack>>
          /\ Len(lRequests) = PagesOfStack
    /\ lPc # "idle" =>
          /\ Len(lRequests) <= PagesOfStack
          /\ \A i \in 1..Len(lRequests) : lRequests[i] = i - 1
    /\ lPc = "list" => lReturned = <<>>

C22_Witness ==
    /\ lPc = "returned"
    /\ Len(lRequests) = 3
    /\ Len(lReturned[1]) = 2
    /\ \E i \in 1..Len(stackResources) : stackResources[i].ResourceType # "AWS::DynamoDB::Table"

\* the capacity setting the parameters must carry for a source table
RightCapacitySetting(params, tableDef) ==
    IF tableDef.BillingMode = "PAY_PER_REQUEST"
    THEN /\ params.BillingMode = "PAY_PER_REQUEST"
         /\ params.ProvisionedThroughput = <<>>
    ELSE /\ params.BillingMode = "undefined"
         /\ params.ProvisionedThroughput =
               <<[ReadCapacityUnits |-> tableDef.ReadCapacityUnits,
                  WriteCapacityUnits |-> tableDef.WriteCapacityUnits]>>

StreamsEnabled(params) ==
    params.StreamEnabled /\ params.StreamViewType = "NEW_AND_OLD_IMAGES"

\* C23: when createGlobalTable builds the replica tables itself, the
\* create-table parameters, as built and as passed for every missing region,
\* carry exactly one capacity setting: BillingMode PAY_PER_REQUEST and no
\* ProvisionedThroughput for an on-demand source table, otherwise the source
\* table's read/write ProvisionedThroughput and no BillingMode; streams are
\* enabled with NEW_AND_OLD_IMAGES.
C23_OneCapacitySettingStreamsEnabled ==
    /\ gParams # <<>> =>
          /\ RightCapacitySetting(gParams[1], gTableDef[1])
          /\ StreamsEnabled(gParams[1])
          /\ ~gCreateStack /\ rArgs.version # "v2"
    /\ gTasks # <<>> =>
          /\ Len(gTasks) = Len(MissingRegions)
          /\ \A i \in 1..Len(gTasks) :
                /\ gTasks[i].region = MissingRegions[i]
                /\ RightCapacitySetting(gTasks[i].params, gTableDef[1])
                /\ StreamsEnabled(gTasks[i].params)
    /\ (~gCreateStack /\ rArgs.version # "v2" /\ gPc = "returned"
          /\ Len(MissingRegions) > 0) => gTasks # <<>>

C23_Witness ==
    /\ Len(gTasks) = 2
    /\ gTableDef[1].BillingMode = "PAY_PER_REQUEST"
    /\ gPc = "returned"

\* the regions of the returned missingRegions, as a set
rMissing == {rReturned[1].missingRegions[i] : i \in 1..Len(rReturned[1].missingRegions)}

\* C24: in every result missingRegions is a subset of the requested list, plus
\* possibly the source region in the describeGlobalTable variant with a found
\* topology only: in variant 'v2' and in the not-found case the source region
\* is in missingRegions only when it was itself requested.
C24_MissingWithinRequestedPlusSource ==
    rPc = "returned" =>
        /\ rMissing \subseteq Requested \cup {rArgs.region}
        /\ (rArgs.version = "v2" \/ LookupNotFound) => rMissing \subseteq Requested

C24_Witness ==
    /\ rPc = "returned"
    /\ rArgs.version = "v1"
    /\ LookupFound
    /\ rArgs.region \notin Requested
    /\ rArgs.region \in rMissing
    /\ Requested \ rMissing # {}

\* a list without repeated entries
NoDuplicates(list) == \A i, j \in 1..Len(list) : list[i] = list[j] => i = j

\* C25: missingRegions never contains the same region twice, for any requested
\* list (repeated entries and the source region included) and in every branch.
C25_MissingRegionsHaveNoDuplicates ==
    rPc = "returned" => NoDuplicates(rReturned[1].missingRegions)

\* what the code keeps: a requested list without repeated entries, that does
\* not name the source region when the source region is diffed too, gives a
\* missingRegions without repeated entries
C25_NoDuplicatesFromDistinctCandidates ==
    (rPc = "returned" /\ NoDuplicates(IF LookupNotFound THEN rArgs.newRegions
                                                        ELSE VariantCandidates))
        => NoDuplicates(rReturned[1].missingRegions)

\* what a settled call yields, read off its own lookup response and arguments
OutcomeOfOwnLookup ==
    IF LookupNotFound THEN rResultIs(rArgs.newRegions, FALSE)
    ELSE IF LookupOtherError
         THEN rPc = "thrown" /\ rThrown = <<rLookup.error>> /\ rReturned = <<>>
    ELSE IF LookupFound
         THEN rResultIs(Uncovered(VariantCandidates), Uncovered(VariantCandidates) # <<>>)
    ELSE rPc = "thrown" /\ rReturned = <<>>

\* the lookup of the version
LookupOfVersion ==
    IF rArgs.version = "v2" THEN "describeTable" ELSE "describeGlobalTable"

\* C26: one call of getRegionsToCreateGlobalTablesIn performs exactly one
\* lookup (describeTable for 'v2', describeGlobalTable otherwise) and writes
\* nothing else; a later call looks the topology up again, and what a call
\* yields is determined by its own lookup response and its arguments.
C26_OneLookupPerCallNothingKept ==
    /\ [](rSettled => OutcomeOfOwnLookup)
    /\ [](\A i \in 1..Len(rCalls) : rCalls[i] = LookupOfVersion)
    /\ [][/\ rPc' = "lookup" =>
                (rPc # "lookup" /\ rCalls' = Append(rCalls, LookupOfVersion) /\ rResp' = <<>>)
          /\ rPc' # "lookup" => rCalls' = rCalls
          /\ UNCHANGED <<rArgs, pVars, tVars, uVars, gVars, oVars, lVars, dVars, remote>>]_vars

C26_Witness ==
    /\ Len(rCalls) = 2
    /\ rArgs.version = "v2"
    /\ rArgs.newRegions # <<>>
    /\ rResultIs(<<>>, FALSE)

\* the query whose answer was a rejection, 0 if none was
FirstRejected ==
    LET hits == {n \in 1..Len(script) : ~script[n].ok}
    IN  IF hits = {} THEN 0 ELSE CHOOSE n \in hits : \A k \in hits : n <= k

\* C27: the poll does not retry: when a describeStacks query rejects,
\* checkStackCreateUpdateStatus rejects with that error at once, queries no
\* more and returns no boolean.
C27_RejectedQueryRejectsThePoll ==
    /\ [](pPc = "thrown" =>
            /\ FirstRejected # 0
            /\ queries = FirstRejected
            /\ pThrown = <<script[FirstRejected].error>>
            /\ pReturned = <<>>)
    /\ [](pPc \in {"sleep", "returned"} => script[Nth(queries)].ok)
    /\ [][(pPc = "query" /\ ~script[Nth(queries)].ok) =>
               (pPc' = "thrown" /\ queries' = queries /\ sleeps' = sleeps)]_vars
    /\ [][pPc = "thrown" => (pPc' = "thrown" /\ queries' = queries /\ pThrown' = pThrown)]_vars

C27_Witness ==
    /\ pPc = "thrown"
    /\ Len(script) = 3
    /\ script[1].ok /\ script[2] = StacksRejected(ProviderError("Throttling")) /\ script[3].ok
    /\ script[3].StackStatus = "CREATE_COMPLETE"
    /\ queries = 2
    /\ sleeps = 1
    /\ pThrown = <<ProviderError("Throttling")>>

\* what getRegionsToCreateGlobalTablesIn yields for version 'v1' on the
\* arguments and the lookup response of the settled call
V1Outcome ==
    getRegionsToCreateGlobalTablesIn(rArgs.region, rArgs.newRegions, "v1", rLookup)

\* the provider calls createGlobalTable issues after the lookup for version
\* 'v1', given the resolver's result for 'v1'
V1Calls ==
    LET missing == V1Outcome.value[1].missingRegions
        adding  == V1Outcome.value[1].addingNewRegions
    IN  (IF gCreateStack
         THEN <<>>
         ELSE <<GlobalCall("describeTable", <<>>),
                GlobalCall("listTagsOfResource", <<>>),
                GlobalCall("describeScalingPolicies", <<>>)>>)
        \o <<IF adding
             THEN GlobalCall("updateGlobalTable", missing)
             ELSE GlobalCall("createGlobalTable", <<rArgs.region>> \o missing)>>

\* C28: for an absent version and for every version other than 'v2',
\* getRegionsToCreateGlobalTablesIn and createGlobalTable issue the provider
\* calls of version 'v1' in the same order, and yield the results of 'v1'.
C28_OtherVersionsBehaveAsV1 ==
    rArgs.version # "v2" =>
        /\ gPc # "idle" => rCalls = <<LookupCall("v1")>>
        /\ rSettled => (rReturned = V1Outcome.value /\ rThrown = V1Outcome.error)
        /\ (gPc # "idle" /\ ~ResolverReported) => gCalls = <<>>
        /\ (gPc = "thrown" /\ rPc = "thrown") => gThrown = V1Outcome.error
        /\ (ResolverReported /\ V1Outcome.value[1].missingRegions = <<>>) => gCalls = <<>>
        /\ (ResolverReported /\ V1Outcome.value[1].missingRegions # <<>>) =>
              /\ IsPrefix(gCalls, V1Calls)
              /\ gPc = "returned" => gCalls = V1Calls
              /\ gTasks # <<>> =>
                    /\ ~gCreateStack
                    /\ [i \in 1..Len(gTasks) |-> gTasks[i].region]
                          = V1Outcome.value[1].missingRegions

C28_Witness ==
    /\ rArgs.version = "undefined"
    /\ gPc = "returned"
    /\ ~gCreateStack
    /\ Len(gTasks) = 2
    /\ gCalls = V1Calls
    /\ gCalls[4].op = "createGlobalTable"

-----------------------------------------------------------------------------
(* Properties of deleteGlobalAndBackupTables, checked under SpecRemove *)

\* the regions an entry lists, as a set
RegionsOfOption(i) == {dOptions[i].regions[k] : k \in 1..Len(dOptions[i].regions)}

\* the deleteTable calls issued for a table in a region
DeletesOf(table, region) ==
    {k \in 1..Len(dCalls) : dCalls[k] = [table |-> table, region |-> region]}

\* the map reached entry i: no entry up to it lacks both tableKey and tableName
MapReached(i) == \A j \in 1..i : dOptions[j].kind # "neither"

TaskRegions == [i \in 1..Len(gTasks) |-> gTasks[i].region]

TasksIn(state) == {i \in 1..Len(gTasks) : gTasks[i].state = state}

\* C30: with createStack false and a version other than 'v2', createGlobalTable
\* starts one createNewTableAndSetScalingPolicy per entry of missingRegions,
\* all of them together; the linkage call is issued only when every one of
\* them has resolved, and when one of them rejects createGlobalTable rejects
\* and no linkage call is issued.
C30_LinkOnlyAfterAllCreations ==
    /\ []((ResolverReported /\ ~gCreateStack /\ rArgs.version # "v2" /\ Len(MissingRegions) > 0) =>
            /\ gPc \in {"tasks", "createGlobalTable", "updateGlobalTable", "returned"}
                  => TaskRegions = MissingRegions
            /\ gTasks # <<>> => TaskRegions = MissingRegions
            /\ gPc = "tasks" => (TasksIn("pending") # {} /\ TasksIn("rejected") = {})
            /\ LinkCalls # <<>> => (gTasks # <<>> /\ TasksIn("resolved") = 1..Len(gTasks))
            /\ (gTasks # <<>> /\ TasksIn("resolved") = 1..Len(gTasks)) => Len(LinkCalls) = 1
            /\ TasksIn("rejected") # {} => (gPc = "thrown" /\ LinkCalls = <<>>))
    /\ [][/\ (gTasks = <<>> /\ gTasks' # <<>>) =>
                \A i \in 1..Len(gTasks') : gTasks'[i].state = "pending"
          /\ gTasks # <<>> =>
                (Len(gTasks') = Len(gTasks)
                    /\ \A i \in 1..Len(gTasks) : gTasks'[i].region = gTasks[i].region)]_vars

C30_Witness ==
    /\ ~gCreateStack
    /\ rArgs.version = "v1"
    /\ Len(gTasks) = 2
    /\ gTasks[1].state = "resolved"
    /\ gTasks[2].state = "rejected"
    /\ gPc = "thrown"
    /\ LinkCalls = <<>>

-----------------------------------------------------------------------------
(* Properties of one run of createGlobalDynamodbTable, checked under SpecOrch *)

\* the linkage calls that have been issued and have not settled
LinksInFlight == SelectSeq(gInFlight, IsLinkCall)

\* the tables createGlobalTable has been called for
TablesStarted ==
    LET IsTable(c) == c.op = "createGlobalTable" IN Len(SelectSeq(oCalls, IsTable))

\* C31: across one run of createGlobalDynamodbTable at most one linkage call
\* (createGlobalTable, updateGlobalTable, updateTable) is in flight at a time:
\* a linkage call is issued, and the next table started, only when none is in
\* flight.
C31_OneLinkageCallInFlight ==
    /\ [](Len(LinksInFlight) <= 1)
    /\ [](oPc = "table" => TablesStarted = oIdx)
    /\ [][/\ Len(LinksInFlight') > Len(LinksInFlight) => LinksInFlight = <<>>
          /\ oCalls' # oCalls => LinksInFlight = <<>>]_vars

C31_Witness ==
    /\ oPc = "table"
    /\ oIdx = 2
    /\ config.version = "v2"
    /\ gPc = "updateTable"
    /\ gIdx = 2
    /\ LinksInFlight = <<GlobalCall("updateTable", <<regionsToUpdate[2]>>)>>

-----------------------------------------------------------------------------
(* Properties of createGlobalTable run against the provider's topology,
   checked under SpecReconcile *)

\* a run after one that returned normally, with the same arguments
LaterRun == Len(rCalls) >= 2

\* C32: a second run of createGlobalTable with the same arguments, after a
\* first run that returned normally and with the topology the provider holds
\* since, finds no missing region and issues no table creation and no
\* linkage call (nor any other call after the lookup); the topology stays as
\* it is.
C32_SecondRunDoesNothing ==
    /\ [](LaterRun =>
            /\ gCalls = <<>>
            /\ gInFlight = <<>>
            /\ gTasks = <<>>
            /\ rCalls[Len(rCalls)] = LookupCall(rArgs.version)
            /\ rPc = "returned" =>
                  (rLookup = ProviderLookup(rArgs.version, remote)
                      /\ rResultIs(<<>>, FALSE))
            /\ rPc = "thrown" => LookupOtherError
            /\ gPc \in {"resolve", "returned", "thrown"}
            /\ gPc = "thrown" => rPc = "thrown")
    /\ [][LaterRun => remote' = remote]_vars

C32_Witness ==
    /\ Len(rCalls) = 2
    /\ gPc = "returned"
    /\ ~gCreateStack
    /\ rArgs.version = "v1"
    /\ Len(rArgs.newRegions) = 2
    /\ remote = [exists |-> TRUE, regions |-> <<rArgs.region>> \o rArgs.newRegions]

\* the regions of the provider's topology
RemoteRegions == {remote.regions[i] : i \in 1..Len(remote.regions)}

\* C33 as stated: whenever createGlobalTable has returned normally the
\* topology contains every requested region and, for a version other than
\* 'v2', the source region.
C33_ReturnCoversRequestedAndSource ==
    gPc = "returned" =>
        /\ Requested \subseteq RemoteRegions
        /\ rArgs.version # "v2" => rArgs.region \in RemoteRegions

\* C33, amended: whenever createGlobalTable has returned normally the topology
\* contains every requested region; for a version other than 'v2' it contains
\* the source region too, except when no global table existed and no region
\* was requested: then the call returns without a linkage call and there is
\* still no global table.
C33_ReturnCoversRequested ==
    gPc = "returned" =>
        /\ Requested \subseteq RemoteRegions
        /\ (rArgs.version # "v2" /\ (remote.exists \/ Requested # {}))
              => rArgs.region \in RemoteRegions
        /\ (rArgs.version # "v2" /\ ~remote.exists) =>
              (Requested = {} /\ gCalls = <<>> /\ LookupNotFound)

C33_Witness ==
    /\ gPc = "returned"
    /\ Len(rCalls) = 1
    /\ rArgs.version = "v1"
    /\ LookupFound
    /\ Len(rLookup.list) = 1
    /\ rLookup.list[1].RegionName \notin Requested \cup {rArgs.region}
    /\ Cardinality(Requested) = 2
    /\ LinkCalls # <<>>
    /\ Cardinality(RemoteRegions) = 4 - (IF rArgs.region \in Requested THEN 1 ELSE 0)

-----------------------------------------------------------------------------
(* Error handling of createGlobalDynamodbTable, checked under SpecOrch *)

\* the helper the function awaits has rejected
HelperRejected ==
    \/ oPc = "cfn" /\ uPc = "thrown"
    \/ oPc = "table" /\ gPc = "thrown"

\* C34: createGlobalDynamodbTable never rejects: an error of table discovery,
\* of a stack deployment or its status poll, of the topology lookup, of a
\* table creation or of a linkage call ends the run in the catch block, which
\* logs that error, and the run is then complete.
C34_EveryErrorIsCaught ==
    /\ [](oPc \in {"idle", "list", "cfn", "table", "done"})
    /\ [](/\ pPc = "thrown" => uPc \in {"check", "thrown"}
          /\ rPc = "thrown" => gPc \in {"resolve", "thrown"}
          /\ uPc = "thrown" => (oPc \in {"cfn", "done"} /\ (oPc = "done" => oCaught = uThrown))
          /\ gPc = "thrown" => (oPc \in {"table", "done"} /\ (oPc = "done" => oCaught = gThrown))
          /\ (oPc = "done" /\ oCaught # <<>>) =>
                (uPc = "thrown" \/ gPc = "thrown" \/ oCalls[Len(oCalls)].op = "getTableNamesFromStack"))
    /\ [][/\ HelperRejected => (oPc' = "done" \/ oPc' = oPc)
          /\ (oPc = "list" /\ oPc' = "done" /\ tableNames' = <<>> /\ Len(stackTables) > 0)
                => oCaught' # <<>>
          /\ oPc = "done" => (oPc' = "done" /\ oCaught' = oCaught)]_vars

C34_Witness ==
    /\ oPc = "done"
    /\ config.enabled = "true"
    /\ config.createStack = "false"
    /\ oIdx = 2
    /\ gPc = "thrown"
    /\ \E i \in 1..Len(gTasks) : gTasks[i].state = "rejected"
    /\ oCaught = gThrown

-----------------------------------------------------------------------------
(* The lookup snapshot of createGlobalTable, checked under SpecContended *)

\* the linkage calls issued so far
LinksIssued == SelectSeq(gCalls, IsLinkCall)

\* the linkage call the snapshot of the lookup asks for, for versions other
\* than 'v2'
SnapshotLink ==
    IF addingNewRegions
    THEN GlobalCall("updateGlobalTable", regionsToUpdate)
    ELSE GlobalCall("createGlobalTable", ReplicationGroup(rArgs.region, regionsToUpdate))

\* what the provider would answer to a lookup now differs from the snapshot
TopologyMoved == rResp # <<>> /\ rResp[1] # ProviderLookup(rArgs.version, remote)

\* C35: within one createGlobalTable call the topology is looked up exactly
\* once, before any table creation or linkage call; the choice between create,
\* update and no-op follows from that snapshot alone, also when another actor
\* has changed the provider's topology since; and once a call has rejected,
\* the run issues no further lookup or call.
C35_OneSnapshotDecides ==
    /\ [](gPc # "idle" => Len(rCalls) = 1)
    /\ [](gCalls # <<>> => (rPc = "returned" /\ Len(regionsToUpdate) > 0))
    /\ []((rPc = "returned" /\ Len(regionsToUpdate) = 0) => gCalls = <<>>)
    /\ []((gCalls # <<>> /\ rArgs.version # "v2") =>
            /\ Len(LinksIssued) <= 1
            /\ \A i \in 1..Len(LinksIssued) : LinksIssued[i] = SnapshotLink)
    /\ []((gCalls # <<>> /\ rArgs.version = "v2") =>
            /\ Len(LinksIssued) <= Len(regionsToUpdate)
            /\ \A i \in 1..Len(LinksIssued) :
                  LinksIssued[i] = GlobalCall("updateTable", <<regionsToUpdate[i]>>))
    /\ [][/\ gPc # "idle" => rCalls' = rCalls
          /\ gPc = "thrown" => (gPc' = "thrown" /\ gCalls' = gCalls /\ gThrown' = gThrown)]_vars

C35_Witness ==
    /\ gPc = "thrown"
    /\ rPc = "returned"
    /\ TopologyMoved
    /\ rArgs.version = "v1"
    /\ ~addingNewRegions
    /\ remote.exists
    /\ LinksIssued = <<SnapshotLink>>
    /\ gCalls[Len(gCalls)].op = "createGlobalTable"
    /\ Len(rCalls) = 1

====
